---- MODULE Spec2Model ----
(***************************************************************************)
(* InterpolateTutor: finite-difference tables, the seven interpolation     *)
(* formulas, preprocessing and the application state that drives them.     *)
(*                                                                         *)
(* Numbers.  The program computes in IEEE doubles.  The model computes in  *)
(* exact rationals <<num, den>> (den > 0, lowest terms); den = 0 encodes   *)
(* the non-finite doubles: <<0,0>> NaN, <<1,0>> +Infinity, <<-1,0>>        *)
(* -Infinity.  Every operation of the code is applied in the code's order  *)
(* and grouping; only rounding is abstracted away.                         *)
(***************************************************************************)
EXTENDS Integers, Sequences, FiniteSets, TLC

\* ------------------------------------------------------------------ bounds
MaxN == 6        \* longest point sequence drawn
MaxH == 1        \* largest step size drawn
MaxCoef == 1     \* polynomial coefficients are drawn from 0..MaxCoef
MaxDeg == 4      \* highest polynomial degree drawn
MaxTerms == 1    \* most nonzero coefficients of a polynomial drawn
MaxX0 == 0       \* the first abscissa is drawn from 0..MaxX0
MaxSelected == 2 \* a toggle leaves at most this many selected, or removes one from all
AppMaxN == 3     \* longest point list a user enters
MaxRaw == 3      \* longest raw point list handed to preprocessPoints
MaxElapsed == 1  \* performance.now() differences are drawn from 0..MaxElapsed
MaxY == 2        \* y-values of a noise-analysis dataset are drawn from 0..MaxY
MaxNoiseN == 6   \* longest dataset handed to the noise analysis
Grid == 20       \* the x-range of an auto-select table is 0..Grid, queries on its marks
MaxDays == 4     \* most daily prices a fetch returns

\* ------------------------------------------------------- rational numbers
NaN == <<0, 0>>
PosInf == <<1, 0>>
NegInf == <<-1, 0>>

Abs(a) == IF a < 0 THEN -a ELSE a

Sign(a) == IF a < 0 THEN -1 ELSE IF a > 0 THEN 1 ELSE 0

RECURSIVE GCD(_, _)
GCD(a, b) == IF b = 0 THEN a ELSE GCD(b, a % b)

\* the operators below bind their arguments once ({a0} has one element), so
\* that an argument is evaluated once however often the body reads it

\* lowest terms, positive denominator; den = 0 keeps only the sign
Norm(n0, d0) ==
  CHOOSE q \in
    {IF d = 0 THEN <<Sign(n), 0>>
     ELSE LET g == GCD(Abs(n), Abs(d))
              s == IF d < 0 THEN -1 ELSE 1
          IN <<s * (n \div g), s * (d \div g)>> : n \in {n0}, d \in {d0}} : TRUE

R(i) == <<i, 1>>

isFinite(a) == a[2] # 0

RNeg(a) == <<-a[1], a[2]>>

RAdd(a0, b0) ==
  CHOOSE sum \in
    {IF isFinite(a) /\ isFinite(b)
       THEN LET g == GCD(a[2], b[2])
            IN Norm(a[1] * (b[2] \div g) + b[1] * (a[2] \div g), (a[2] \div g) * b[2])
     ELSE IF a = NaN \/ b = NaN THEN NaN
     ELSE IF isFinite(a) THEN b
     ELSE IF isFinite(b) THEN a
     ELSE IF a = b THEN a ELSE NaN : a \in {a0}, b \in {b0}} : TRUE

RSub(a, b) == RAdd(a, RNeg(b))

RMul(a0, b0) ==
  CHOOSE product \in
    {IF isFinite(a) /\ isFinite(b)
       THEN LET g1 == GCD(Abs(a[1]), b[2])
                g2 == GCD(Abs(b[1]), a[2])
            IN Norm((a[1] \div g1) * (b[1] \div g2), (a[2] \div g2) * (b[2] \div g1))
     ELSE IF a = NaN \/ b = NaN \/ a[1] = 0 \/ b[1] = 0 THEN NaN
     ELSE <<Sign(a[1]) * Sign(b[1]), 0>> : a \in {a0}, b \in {b0}} : TRUE

RDiv(a0, b0) ==
  CHOOSE quotient \in
    {IF isFinite(a) /\ isFinite(b)
       THEN (IF b[1] = 0 THEN <<Sign(a[1]), 0>>
             ELSE RMul(a, Norm(b[2], b[1])))
     ELSE IF a = NaN \/ b = NaN THEN NaN
     ELSE IF isFinite(a) THEN R(0)
     ELSE IF isFinite(b) THEN <<a[1] * (IF b[1] < 0 THEN -1 ELSE 1), 0>>
     ELSE NaN : a \in {a0}, b \in {b0}} : TRUE

\* a < b as the double comparison: false whenever a NaN is involved
RLess(a0, b0) ==
  \E a \in {a0}, b \in {b0} :
    IF a = NaN \/ b = NaN THEN FALSE
    ELSE IF isFinite(a) /\ isFinite(b) THEN a[1] * b[2] < b[1] * a[2]
    ELSE IF isFinite(a) THEN b = PosInf
    ELSE IF isFinite(b) THEN a = NegInf
    ELSE a = NegInf /\ b = PosInf

RAbs(a) == <<Abs(a[1]), a[2]>>

Half == <<1, 2>>
Quarter == <<1, 4>>

\* -------------------------------------------------------------- factorial
RECURSIVE factLoop(_, _, _)
factLoop(result, i, n) == IF i > n THEN result ELSE factLoop(result * i, i + 1, n)

factorial(n) ==
  IF n < 0 THEN 0
  ELSE IF n = 0 \/ n = 1 THEN 1
  ELSE factLoop(1, 2, n)

\* ----------------------------------------------------------------- points
\* points[i] of the code (0-based) is At(points, i)
At(points, i) == points[i + 1]

Defined(table, col, row) == col \in DOMAIN table /\ row \in DOMAIN table[col]

\* ------------------------------------------------------ difference tables
Ys(points) == [row \in 0..(Len(points) - 1) |-> At(points, row).y]

RECURSIVE fwdColsSwapped(_, _, _)
fwdColsSwapped(table, n, col) ==
  IF col >= n THEN table
  ELSE fwdColsSwapped(
         table @@ (col :> [row \in 0..(n - col - 1) |->
                             RSub(table[col - 1][row], table[col - 1][row + 1])]),
         n, col + 1)

RECURSIVE fwdCols(_, _, _)
fwdCols(table, n, col) ==
  IF col >= n THEN table
  ELSE fwdCols(
         table @@ (col :> [row \in 0..(n - col - 1) |->
                             RSub(table[col - 1][row + 1], table[col - 1][row])]),
         n, col + 1)

RECURSIVE bwdColsShifted(_, _, _)
bwdColsShifted(table, n, col) ==
  IF col >= n THEN table
  ELSE bwdColsShifted(
         table @@ (col :> [row \in col..(n - 1) |->
                             IF row - 2 \in DOMAIN table[col - 1]
                               THEN RSub(table[col - 1][row - 1], table[col - 1][row - 2])
                               ELSE RSub(table[col - 1][row], table[col - 1][row - 1])]),
         n, col + 1)

RECURSIVE bwdCols(_, _, _)
bwdCols(table, n, col) ==
  IF col >= n THEN table
  ELSE bwdCols(
         table @@ (col :> [row \in col..(n - 1) |->
                             RSub(table[col - 1][row], table[col - 1][row - 1])]),
         n, col + 1)

getRawForwardDifferences(points) == fwdCols((0 :> Ys(points)), Len(points), 1)

getRawBackwardDifferences(points) == bwdCols((0 :> Ys(points)), Len(points), 1)

\* The three build* functions build the same numeric table with their own
\* loops and then hand it to formatDifferenceTable; these are the numeric
\* tables before formatting.
RECURSIVE buildFwdCols(_, _, _)
buildFwdCols(table, n, col) ==
  IF col >= n THEN table
  ELSE buildFwdCols(
         table @@ (col :> [row \in 0..(n - col - 1) |->
                             RSub(table[col - 1][row + 1], table[col - 1][row])]),
         n, col + 1)

RECURSIVE buildBwdCols(_, _, _)
buildBwdCols(table, n, col) ==
  IF col >= n THEN table
  ELSE buildBwdCols(
         table @@ (col :> [row \in col..(n - 1) |->
                             RSub(table[col - 1][row], table[col - 1][row - 1])]),
         n, col + 1)

RECURSIVE buildCentralCols(_, _, _)
buildCentralCols(table, n, col) ==
  IF col >= n THEN table
  ELSE buildCentralCols(
         table @@ (col :> [row \in 0..(n - col - 1) |->
                             RSub(table[col - 1][row + 1], table[col - 1][row])]),
         n, col + 1)

buildForwardDifferences(points) == buildFwdCols((0 :> Ys(points)), Len(points), 1)

buildBackwardDifferences(points) == buildBwdCols((0 :> Ys(points)), Len(points), 1)

buildCentralDifferences(points) == buildCentralCols((0 :> Ys(points)), Len(points), 1)

\* ------------------------------------------------------------ result records
Undefined == <<0, -1>>

NoReads == {}

Step(kind, order, reads, term, value) ==
  [kind |-> kind, order |-> order, reads |-> reads, term |-> term, value |-> value]

\* a step that adds no term: its value field is the number it reports
Info(kind, value) == Step(kind, 0, NoReads, Undefined, value)

\* trace is not a field of the program's result: it lists, in program order,
\* every term block the evaluator went through as <<order, applied>>.
\* computationTime is not a function of the arguments: Timed adds it where a
\* call is made twice, and it is left out where nothing reads it
Result(method, value, steps, warning, trace) ==
  [method |-> method, threw |-> FALSE, value |-> value, steps |-> steps,
   warning |-> warning, trace |-> trace]

\* reading .x or .y of points[i] with i outside 0..n-1 raises a TypeError
Threw(method) ==
  [method |-> method, threw |-> TRUE, value |-> NaN, steps |-> <<>>,
   warning |-> "none", trace |-> <<>>]

\* the accumulator of an evaluator: result, the steps pushed so far, the trace
Start(y, head) == [result |-> y, steps |-> head, trace |-> <<>>]

\* a step pushed before the term is added
AddTermBeforeSum(acc, order, reads, term) ==
  [result |-> RAdd(acc.result, term),
   steps |-> Append(acc.steps, Step("term", order, reads, term, acc.result)),
   trace |-> Append(acc.trace, <<order, TRUE>>)]

\* result += term; steps.push({... value: result ...})
AddTerm(acc, order, reads, term) ==
  LET sum == RAdd(acc.result, term)
  IN [result |-> sum,
      steps |-> Append(acc.steps, Step("term", order, reads, term, sum)),
      trace |-> Append(acc.trace, <<order, TRUE>>)]

\* the guard of a term block is false: nothing is added, nothing is pushed
SkipTerm(acc, order) ==
  [result |-> acc.result, steps |-> acc.steps,
   trace |-> Append(acc.trace, <<order, FALSE>>)]

Finish(method, acc, warning) ==
  Result(method, acc.result, Append(acc.steps, Info("final", acc.result)),
         warning, acc.trace)

InRange(reads, n) == reads \subseteq 0..(n - 1)

\* a range check that looks at the lower end only
ExtrapolatesBelow(points, queryX) == RLess(queryX, At(points, 0).x)

Extrapolates(points, queryX) ==
  RLess(queryX, At(points, 0).x) \/ RLess(At(points, Len(points) - 1).x, queryX)

\* ------------------------------------------------------------ Newton forward
RECURSIVE fallingProductFromZero(_, _, _, _)
fallingProductFromZero(uProduct, u, j, i) ==
  IF j >= i THEN uProduct
  ELSE fallingProductFromZero(RMul(uProduct, RSub(u, R(j - 1))), u, j + 1, i)

RECURSIVE fallingProduct(_, _, _, _)
fallingProduct(uProduct, u, j, i) ==
  IF j >= i THEN uProduct
  ELSE fallingProduct(RMul(uProduct, RSub(u, R(j))), u, j + 1, i)

RECURSIVE risingProduct(_, _, _, _)
risingProduct(uProduct, u, j, i) ==
  IF j >= i THEN uProduct
  ELSE risingProduct(RMul(uProduct, RAdd(u, R(j))), u, j + 1, i)

RECURSIVE forwardTerms(_, _, _, _, _)
forwardTerms(acc, diffTable, u, i, n) ==
  IF i >= n THEN acc
  ELSE IF Defined(diffTable, i, 0)
    THEN LET uProduct == fallingProduct(u, u, 1, i)
             term == RMul(RDiv(uProduct, R(factorial(i))), diffTable[i][0])
         IN forwardTerms(AddTerm(acc, i, {<<i, 0>>}, term), diffTable, u, i + 1, n)
  ELSE forwardTerms(SkipTerm(acc, i), diffTable, u, i + 1, n)

forwardPointReads(n) == {0, 1, n - 1}

forwardFormula(points, queryX) ==
  LET n == Len(points)
  IN IF ~InRange(forwardPointReads(n), n) THEN Threw("Forward Formula")
     ELSE
       LET x0 == At(points, 0).x
           y0 == At(points, 0).y
           h == RSub(At(points, 1).x, At(points, 0).x)
           u == RDiv(RSub(queryX, x0), h)
           diffTable == getRawForwardDifferences(points)
           head == <<Info("h", h), Info("param", u), Info("table", Undefined),
                     Info("formula", Undefined), Info("start", y0)>>
           acc == forwardTerms(Start(y0, head), diffTable, u, 1, n)
           warning == IF Extrapolates(points, queryX) THEN "extrapolation"
                      ELSE IF RLess(Half, u) THEN "tip"
                      ELSE "none"
       IN Finish("Forward Formula", acc, warning)

\* ----------------------------------------------------------- Newton backward
RECURSIVE backwardTerms(_, _, _, _, _)
backwardTerms(acc, diffTable, u, i, n) ==
  IF i >= n THEN acc
  ELSE IF Defined(diffTable, i, n - 1)
    THEN LET uProduct == risingProduct(u, u, 1, i)
             term == RMul(RDiv(uProduct, R(factorial(i))), diffTable[i][n - 1])
         IN backwardTerms(AddTerm(acc, i, {<<i, n - 1>>}, term), diffTable, u, i + 1, n)
  ELSE backwardTerms(SkipTerm(acc, i), diffTable, u, i + 1, n)

backwardPointReads(n) == {n - 1, 1, 0}

backwardFormula(points, queryX) ==
  LET n == Len(points)
  IN IF ~InRange(backwardPointReads(n), n) THEN Threw("Backward Formula")
     ELSE
       LET xn == At(points, n - 1).x
           yn == At(points, n - 1).y
           h == RSub(At(points, 1).x, At(points, 0).x)
           u == RDiv(RSub(queryX, xn), h)
           diffTable == getRawBackwardDifferences(points)
           head == <<Info("h", h), Info("param", u), Info("table", Undefined),
                     Info("formula", Undefined), Info("start", yn)>>
           acc == backwardTerms(Start(yn, head), diffTable, u, 1, n)
           warning == IF Extrapolates(points, queryX) THEN "extrapolation"
                      ELSE IF RLess(u, RNeg(Half)) THEN "tip"
                      ELSE "none"
       IN Finish("Backward Formula", acc, warning)

\* ------------------------------------------------ central-family helpers
\* diffTable[col][row] || 0 : an absent entry, a zero and a NaN all give 0
OrZero(diffTable, col, row) ==
  IF Defined(diffTable, col, row) /\ diffTable[col][row] # NaN
    THEN diffTable[col][row]
    ELSE R(0)

CentralHead(h, y0, p) ==
  <<Info("h", h), Info("ref", y0), Info("param", p), Info("table", Undefined),
    Info("formula", Undefined)>>

\* ------------------------------------------------------------------ Stirling
stirlingMidIndex(n) == n \div 2

stirlingPointReads(n) == {stirlingMidIndex(n), 1, 0, n - 1}

stirlingFormula(points, queryX) ==
  LET n == Len(points)
      midIndex == stirlingMidIndex(n)
  IN IF ~InRange(stirlingPointReads(n), n) THEN Threw("Stirling's Formula")
     ELSE
       LET x0 == At(points, midIndex).x
           y0 == At(points, midIndex).y
           h == RSub(At(points, 1).x, At(points, 0).x)
           p == RDiv(RSub(queryX, x0), h)
           diffTable == getRawForwardDifferences(points)
           a0 == Start(y0, Append(CentralHead(h, y0, p), Info("start", y0)))
           a1 == IF midIndex > 0 /\ midIndex < n - 1 /\ 1 \in DOMAIN diffTable
                   THEN LET delta_y0 == OrZero(diffTable, 1, midIndex)
                            delta_y_minus1 == OrZero(diffTable, 1, midIndex - 1)
                            term1 == RDiv(RMul(p, RAdd(delta_y0, delta_y_minus1)), R(2))
                        IN AddTerm(a0, 1, {<<1, midIndex>>, <<1, midIndex - 1>>}, term1)
                   ELSE SkipTerm(a0, 1)
           a2 == IF midIndex > 0 /\ Defined(diffTable, 2, midIndex - 1)
                   THEN LET term2 == RMul(RDiv(RMul(p, p), R(factorial(2))),
                                          diffTable[2][midIndex - 1])
                        IN AddTerm(a1, 2, {<<2, midIndex - 1>>}, term2)
                   ELSE SkipTerm(a1, 2)
           a3 == IF midIndex > 1 /\ midIndex < n - 1 /\ 3 \in DOMAIN diffTable
                   THEN LET delta3_y_minus1 == OrZero(diffTable, 3, midIndex - 1)
                            delta3_y_minus2 == OrZero(diffTable, 3, midIndex - 2)
                            coef == RDiv(RMul(p, RSub(RMul(p, p), R(1))), R(factorial(3)))
                            term3 == RDiv(RMul(coef, RAdd(delta3_y_minus1, delta3_y_minus2)),
                                          R(2))
                        IN AddTerm(a2, 3, {<<3, midIndex - 1>>, <<3, midIndex - 2>>}, term3)
                   ELSE SkipTerm(a2, 3)
           warning == IF Extrapolates(points, queryX) THEN "extrapolation"
                      ELSE IF RLess(Half, RAbs(p)) THEN "tip"
                      ELSE "none"
       IN Finish("Stirling's Formula", a3, warning)

\* -------------------------------------------------------------------- Bessel
besselMidIndex(n) == (n - 1) \div 2

besselPointReads(n) == {besselMidIndex(n), besselMidIndex(n) + 1, 1, 0, n - 1}

besselFormula(points, queryX) ==
  LET n == Len(points)
      midIndex == besselMidIndex(n)
  IN IF ~InRange(besselPointReads(n), n) THEN Threw("Bessel's Formula")
     ELSE
       LET x0 == At(points, midIndex).x
           y0 == At(points, midIndex).y
           y1 == At(points, midIndex + 1).y
           h == RSub(At(points, 1).x, At(points, 0).x)
           p == RDiv(RSub(queryX, x0), h)
           diffTable == getRawForwardDifferences(points)
           avg == RDiv(RAdd(y0, y1), R(2))
           a0 == Start(avg, Append(CentralHead(h, y0, p), Info("start", avg)))
           a1 == IF Defined(diffTable, 1, midIndex)
                   THEN AddTerm(a0, 1, {<<1, midIndex>>}, RMul(p, diffTable[1][midIndex]))
                   ELSE SkipTerm(a0, 1)
           a2 == IF midIndex > 0 /\ 2 \in DOMAIN diffTable
                   THEN LET delta2_y0 == OrZero(diffTable, 2, midIndex)
                            delta2_y_minus1 == OrZero(diffTable, 2, midIndex - 1)
                            coef == RDiv(RSub(RMul(p, p), Quarter), R(factorial(2)))
                            term2 == RDiv(RMul(coef, RAdd(delta2_y0, delta2_y_minus1)), R(2))
                        IN AddTerm(a1, 2, {<<2, midIndex>>, <<2, midIndex - 1>>}, term2)
                   ELSE SkipTerm(a1, 2)
           a3 == IF midIndex > 0 /\ Defined(diffTable, 3, midIndex - 1)
                   THEN LET coef == RDiv(RMul(RMul(p, RSub(p, Half)),
                                              RSub(RMul(p, p), Quarter)),
                                         R(factorial(3)))
                        IN AddTerm(a2, 3, {<<3, midIndex - 1>>},
                                   RMul(coef, diffTable[3][midIndex - 1]))
                   ELSE SkipTerm(a2, 3)
           warning == IF Extrapolates(points, queryX) THEN "extrapolation"
                      ELSE IF RLess(Half, RAbs(RSub(p, Half))) THEN "tip"
                      ELSE "none"
       IN Finish("Bessel's Formula", a3, warning)

\* ------------------------------------------------------------------- Everett
everettMidIndex(n) == (n - 1) \div 2

everettPointReads(n) == {everettMidIndex(n), everettMidIndex(n) + 1, 1, 0, n - 1}

\* the conditions under which each of the four term blocks runs
everettGuard1(midIndex, n, diffTable) ==
  midIndex > 0 /\ Defined(diffTable, 2, midIndex - 1)

everettGuard2Shifted(midIndex, n, diffTable) == Defined(diffTable, 2, midIndex + 1)

everettGuard2(midIndex, n, diffTable) == Defined(diffTable, 2, midIndex)

everettGuard3(midIndex, n, diffTable) ==
  midIndex > 1 /\ Defined(diffTable, 4, midIndex - 2)

everettGuard4(midIndex, n, diffTable) ==
  midIndex + 4 < n /\ Defined(diffTable, 4, midIndex)

\* an accumulator anchored on the reference point alone
everettStartAnchored(q, y0, p, y1) == y0

\* let result = q * y0 + p * y1
everettStart(q, y0, p, y1) == RAdd(RMul(q, y0), RMul(p, y1))

everettFormula(points, queryX) ==
  LET n == Len(points)
      midIndex == everettMidIndex(n)
  IN IF ~InRange(everettPointReads(n), n) THEN Threw("Everett's Formula")
     ELSE
       LET x0 == At(points, midIndex).x
           y0 == At(points, midIndex).y
           y1 == At(points, midIndex + 1).y
           h == RSub(At(points, 1).x, At(points, 0).x)
           p == RDiv(RSub(queryX, x0), h)
           q == RSub(R(1), p)
           diffTable == getRawForwardDifferences(points)
           base == everettStart(q, y0, p, y1)
           a0 == Start(base, Append(CentralHead(h, y0, p), Info("start", base)))
           q2m1 == RSub(RMul(q, q), R(1))
           p2m1 == RSub(RMul(p, p), R(1))
           a1 == IF everettGuard1(midIndex, n, diffTable)
                   THEN AddTerm(a0, 2, {<<2, midIndex - 1>>},
                                RMul(RDiv(RMul(q, q2m1), R(6)), diffTable[2][midIndex - 1]))
                   ELSE SkipTerm(a0, 2)
           a2 == IF everettGuard2(midIndex, n, diffTable)
                   THEN AddTerm(a1, 2, {<<2, midIndex>>},
                                RMul(RDiv(RMul(p, p2m1), R(6)), diffTable[2][midIndex]))
                   ELSE SkipTerm(a1, 2)
           a3 == IF everettGuard3(midIndex, n, diffTable)
                   THEN AddTerm(a2, 4, {<<4, midIndex - 2>>},
                                RMul(RDiv(RMul(RMul(q, q2m1), RSub(RMul(q, q), R(4))), R(120)),
                                     diffTable[4][midIndex - 2]))
                   ELSE SkipTerm(a2, 4)
           a4 == IF everettGuard4(midIndex, n, diffTable)
                   THEN AddTerm(a3, 4, {<<4, midIndex>>},
                                RMul(RDiv(RMul(RMul(p, p2m1), RSub(RMul(p, p), R(4))), R(120)),
                                     diffTable[4][midIndex]))
                   ELSE SkipTerm(a3, 4)
           warning == IF Extrapolates(points, queryX) THEN "extrapolation" ELSE "none"
       IN Finish("Everett's Formula", a4, warning)

\* ---------------------------------------------------------- Gaussian forward
gaussianForwardMidIndex(n) == n \div 2

gaussianForwardPointReads(n) == {gaussianForwardMidIndex(n), 1, 0, n - 1}

gaussianForwardFormula(points, queryX) ==
  LET n == Len(points)
      midIndex == gaussianForwardMidIndex(n)
  IN IF ~InRange(gaussianForwardPointReads(n), n) THEN Threw("Gaussian Forward")
     ELSE
       LET x0 == At(points, midIndex).x
           y0 == At(points, midIndex).y
           h == RSub(At(points, 1).x, At(points, 0).x)
           p == RDiv(RSub(queryX, x0), h)
           diffTable == getRawForwardDifferences(points)
           a0 == Start(y0, Append(CentralHead(h, y0, p), Info("start", y0)))
           pm1 == RSub(p, R(1))
           pp1 == RAdd(p, R(1))
           a1 == IF Defined(diffTable, 1, midIndex)
                   THEN AddTerm(a0, 1, {<<1, midIndex>>}, RMul(p, diffTable[1][midIndex]))
                   ELSE SkipTerm(a0, 1)
           a2 == IF midIndex > 0 /\ Defined(diffTable, 2, midIndex - 1)
                   THEN AddTerm(a1, 2, {<<2, midIndex - 1>>},
                                RMul(RDiv(RMul(p, pm1), R(factorial(2))),
                                     diffTable[2][midIndex - 1]))
                   ELSE SkipTerm(a1, 2)
           a3 == IF midIndex > 0 /\ Defined(diffTable, 3, midIndex - 1)
                   THEN AddTerm(a2, 3, {<<3, midIndex - 1>>},
                                RMul(RDiv(RMul(RMul(p, pm1), pp1), R(factorial(3))),
                                     diffTable[3][midIndex - 1]))
                   ELSE SkipTerm(a2, 3)
           a4 == IF midIndex > 1 /\ Defined(diffTable, 4, midIndex - 2)
                   THEN AddTerm(a3, 4, {<<4, midIndex - 2>>},
                                RMul(RDiv(RMul(RMul(RMul(p, pm1), pp1), RSub(p, R(2))),
                                          R(factorial(4))),
                                     diffTable[4][midIndex - 2]))
                   ELSE SkipTerm(a3, 4)
           warning == IF Extrapolates(points, queryX) THEN "extrapolation"
                      ELSE IF RLess(Half, p) THEN "tip"
                      ELSE "none"
       IN Finish("Gaussian Forward", a4, warning)

\* --------------------------------------------------------- Gaussian backward
gaussianBackwardMidIndexOff(n) == (n \div 2) + 1

gaussianBackwardMidIndex(n) == (n + 1) \div 2

gaussianBackwardPointReads(n) == {gaussianBackwardMidIndex(n), 1, 0, n - 1}

gaussianBackwardFormula(points, queryX) ==
  LET n == Len(points)
      midIndex == gaussianBackwardMidIndex(n)
  IN IF ~InRange(gaussianBackwardPointReads(n), n) THEN Threw("Gaussian Backward")
     ELSE
       LET x0 == At(points, midIndex).x
           y0 == At(points, midIndex).y
           h == RSub(At(points, 1).x, At(points, 0).x)
           p == RDiv(RSub(queryX, x0), h)
           diffTable == getRawForwardDifferences(points)
           a0 == Start(y0, Append(CentralHead(h, y0, p), Info("start", y0)))
           pm1 == RSub(p, R(1))
           pp1 == RAdd(p, R(1))
           a1 == IF midIndex > 0 /\ Defined(diffTable, 1, midIndex - 1)
                   THEN AddTerm(a0, 1, {<<1, midIndex - 1>>},
                                RMul(p, diffTable[1][midIndex - 1]))
                   ELSE SkipTerm(a0, 1)
           a2 == IF midIndex > 0 /\ Defined(diffTable, 2, midIndex - 1)
                   THEN AddTerm(a1, 2, {<<2, midIndex - 1>>},
                                RMul(RDiv(RMul(p, pp1), R(factorial(2))),
                                     diffTable[2][midIndex - 1]))
                   ELSE SkipTerm(a1, 2)
           a3 == IF midIndex > 1 /\ Defined(diffTable, 3, midIndex - 2)
                   THEN AddTerm(a2, 3, {<<3, midIndex - 2>>},
                                RMul(RDiv(RMul(RMul(p, pp1), pm1), R(factorial(3))),
                                     diffTable[3][midIndex - 2]))
                   ELSE SkipTerm(a2, 3)
           a4 == IF midIndex > 1 /\ Defined(diffTable, 4, midIndex - 2)
                   THEN AddTerm(a3, 4, {<<4, midIndex - 2>>},
                                RMul(RDiv(RMul(RMul(RMul(p, pp1), pm1), RAdd(p, R(2))),
                                          R(factorial(4))),
                                     diffTable[4][midIndex - 2]))
                   ELSE SkipTerm(a3, 4)
           warning == IF Extrapolates(points, queryX) THEN "extrapolation"
                      ELSE IF RLess(p, RNeg(Half)) THEN "tip"
                      ELSE "none"
       IN Finish("Gaussian Backward", a4, warning)

\* ------------------------------------------------------------- preprocessing
EPSILON == <<1, 10000>>

Null == "null"

NullNum == <<0, -2>>

\* handler tells a run of handleCompute from a run of any other handler
Other == "-"

PreResult(isValid, error, sortedPoints, equallySpaced, stepSize) ==
  [isValid |-> isValid, error |-> error, sortedPoints |-> sortedPoints,
   equallySpaced |-> equallySpaced, stepSize |-> stepSize]

\* [...points].sort((a, b) => a.x - b.x): stable, ascending by x
RECURSIVE insertByX(_, _)
insertByX(sorted, pt) ==
  IF sorted = <<>> THEN <<pt>>
  ELSE IF RLess(pt.x, sorted[Len(sorted)].x)
    THEN Append(insertByX(SubSeq(sorted, 1, Len(sorted) - 1), pt), sorted[Len(sorted)])
    ELSE Append(sorted, pt)

\* the points left in the order supplied
keepOrder(points) == points

RECURSIVE sortByX(_)
sortByX(points) ==
  IF points = <<>> THEN <<>>
  ELSE insertByX(sortByX(SubSeq(points, 1, Len(points) - 1)), points[Len(points)])

\* spacing compared without tolerance
checkEqualSpacingExact(sortedPoints) ==
  IF Len(sortedPoints) < 2 THEN [equallySpaced |-> FALSE, stepSize |-> NullNum]
  ELSE LET firstStep == RSub(At(sortedPoints, 1).x, At(sortedPoints, 0).x)
       IN IF \E i \in 1..(Len(sortedPoints) - 2) :
               RSub(At(sortedPoints, i + 1).x, At(sortedPoints, i).x) # firstStep
            THEN [equallySpaced |-> FALSE, stepSize |-> NullNum]
            ELSE [equallySpaced |-> TRUE, stepSize |-> firstStep]

checkEqualSpacing(sortedPoints) ==
  IF Len(sortedPoints) < 2 THEN [equallySpaced |-> FALSE, stepSize |-> NullNum]
  ELSE LET firstStep == RSub(At(sortedPoints, 1).x, At(sortedPoints, 0).x)
           differs(i) == LET step == RSub(At(sortedPoints, i + 1).x, At(sortedPoints, i).x)
                         IN RLess(EPSILON, RAbs(RSub(step, firstStep)))
       IN IF \E i \in 1..(Len(sortedPoints) - 2) : differs(i)
            THEN [equallySpaced |-> FALSE, stepSize |-> NullNum]
            ELSE [equallySpaced |-> TRUE, stepSize |-> firstStep]

\* a duplicate test with the spacing tolerance
hasNearDuplicateX(points) ==
  \E i, j \in DOMAIN points :
    i # j /\ ~RLess(EPSILON, RAbs(RSub(points[i].x, points[j].x)))

\* uniqueX.size !== xValues.length: a Set keeps one of several equal numbers,
\* and one NaN of several
hasDuplicateX(points) == Cardinality({points[i].x : i \in DOMAIN points}) # Len(points)

preprocessPoints(points) ==
  IF Len(points) < 2
    THEN PreResult(FALSE, "At least 2 data points are required for interpolation.",
                   <<>>, FALSE, NullNum)
  ELSE IF hasDuplicateX(points)
    THEN PreResult(FALSE, "Duplicate x-values detected. Each x must be unique.",
                   <<>>, FALSE, NullNum)
  ELSE IF \E i \in DOMAIN points : ~isFinite(points[i].x) \/ ~isFinite(points[i].y)
    THEN PreResult(FALSE, "Invalid data: points contain NaN or Infinity values.",
                   <<>>, FALSE, NullNum)
  ELSE LET sortedPoints == sortByX(points)
           spacing == checkEqualSpacing(sortedPoints)
       IN PreResult(TRUE, Null, sortedPoints, spacing.equallySpaced, spacing.stepSize)

\* the caller's array after a sort applied to the array itself
sortedInPlace(points) == sortByX(points)

\* the caller's array after [...points].sort(...): the spread makes the copy
\* that is sorted, the array passed in is only read
afterSpreadSort(points) == points

UnequalMessage ==
  "Data points must be equally spaced for Forward, Backward, Stirling, Bessel, Everett, and Gaussian formulas."

validateEqualSpacingLax(pts0) ==
  LET result == preprocessPoints(pts0)
  IN IF ~result.isValid THEN [valid |-> FALSE, error |-> result.error, h |-> NullNum]
     ELSE [valid |-> TRUE, error |-> Null, h |-> result.stepSize]

validateEqualSpacing(pts0) ==
  LET result == preprocessPoints(pts0)
  IN IF ~result.isValid THEN [valid |-> FALSE, error |-> result.error, h |-> NullNum]
     ELSE IF ~result.equallySpaced
       THEN [valid |-> FALSE, error |-> UnequalMessage, h |-> NullNum]
     ELSE [valid |-> TRUE, error |-> Null, h |-> result.stepSize]

\* ------------------------------------------------------------ inputs drawn

Pt(x, y) == [x |-> x, y |-> y]

\* coefficient sequences c[1] + c[2] x + ... + c[MaxDeg+1] x^MaxDeg with at
\* most MaxTerms nonzero coefficients
Polys ==
  {c \in [1..(MaxDeg + 1) -> 0..MaxCoef] :
     Cardinality({k \in 1..(MaxDeg + 1) : c[k] # 0}) <= MaxTerms}

RECURSIVE Horner(_, _, _)
Horner(poly, x, k) ==
  IF k > Len(poly) THEN R(0)
  ELSE RAdd(R(poly[k]), RMul(x, Horner(poly, x, k + 1)))

PolyAt(poly, x) == Horner(poly, x, 1)

Degree(poly) ==
  LET nz == {k \in DOMAIN poly : poly[k] # 0}
  IN IF nz = {} THEN 0 ELSE (CHOOSE k \in nz : \A j \in nz : j <= k) - 1

Samples(poly, n, x0, h) ==
  [i \in 1..n |-> Pt(R(x0 + (i - 1) * h), PolyAt(poly, R(x0 + (i - 1) * h)))]

\* queries are drawn at the nodes, midway between neighbouring nodes and half
\* a step outside either end: x0 + (j/2) h
HalfSteps(n) == (-1)..(2 * (n - 1) + 1)

QueryAt(x0, h, j) == RAdd(R(x0), RMul(R(h), Norm(j, 2)))

NoResult ==
  [method |-> "none", threw |-> FALSE, value |-> NaN, steps |-> <<>>,
   warning |-> "none", trace |-> <<>>]

NoTables == <<>>

NoPre == PreResult(FALSE, "none", <<>>, FALSE, NullNum)

\* -------------------------------------------------------------------- state
VARIABLES
  points, queryX, selectedMethods, results, isComputing, error,
  equallySpaced, stepSize,   \* AppState
  handler,                   \* "handleCompute" when that handler ran last
  invoked,                   \* the formula calls that handler made, in order
  poly, pts, qx,             \* inputs of a direct call of a core function
  tables,                    \* tables returned by direct calls, by builder name
  res,                       \* result returned by the last direct evaluator call
  again,                     \* result of calling the same evaluator once more
  pre,                       \* result returned by a direct call of preprocessPoints
  analysis,                  \* value of NoiseAnalysis's analysis memo
  curve,                     \* y returned by the Visualization evaluator of res.method
  selectedDataset, isLoading, metadata, loadedPoints,  \* RealWorldDataSelector state
  fetching                   \* the handleFetchData call awaiting fetchDataset

appVars == <<points, queryX, selectedMethods, results, isComputing, error,
             equallySpaced, stepSize, handler, invoked>>

callVars == <<poly, pts, qx, tables, res, again, pre>>

viewVars == <<analysis, curve, selectedDataset, isLoading, metadata, loadedPoints,
             fetching>>

vars == <<points, queryX, selectedMethods, results, isComputing, error,
          equallySpaced, stepSize, handler, invoked, poly, pts, qx, tables, res,
          again, pre, analysis, curve, selectedDataset, isLoading, metadata,
          loadedPoints, fetching>>

\* appReducer's initialState
InitApp ==
  /\ points = <<>>
  /\ queryX = NullNum
  /\ selectedMethods = <<>>
  /\ results = <<>>
  /\ isComputing = FALSE
  /\ error = Null
  /\ equallySpaced = FALSE
  /\ stepSize = NullNum
  /\ invoked = <<>>

NotComputed == [memo |-> "not computed"]

NoFetch == "none"

\* the components as mounted: no memo computed, no curve evaluated, and
\* RealWorldDataSelector's useState initial values
NoView ==
  /\ analysis = NotComputed
  /\ curve = Undefined
  /\ selectedDataset = ""
  /\ isLoading = FALSE
  /\ metadata = Null
  /\ loadedPoints = <<>>
  /\ fetching = NoFetch

NoCall ==
  /\ poly = <<>>
  /\ pts = <<>>
  /\ qx = R(0)
  /\ tables = NoTables
  /\ res = NoResult
  /\ again = NoResult
  /\ pre = NoPre

\* --------------------------------------------- direct calls: table builders
\* a caller holds a point sequence and calls the builders on it
InitTables ==
  /\ InitApp
  /\ NoView
  /\ handler = Other
  /\ poly \in Polys
  /\ \E n \in 1..MaxN, x0 \in 0..MaxX0, h \in 1..MaxH : pts = Samples(poly, n, x0, h)
  /\ qx = R(0)
  /\ tables = NoTables
  /\ res = NoResult
  /\ again = NoResult
  /\ pre = NoPre

Returned(name, table) ==
  /\ tables' = (name :> table) @@ tables
  /\ UNCHANGED <<poly, pts, qx, res, again, pre>>
  /\ UNCHANGED appVars
  /\ UNCHANGED viewVars

CallGetRawForwardDifferences == Returned("rawForward", getRawForwardDifferences(pts))

CallGetRawBackwardDifferences == Returned("rawBackward", getRawBackwardDifferences(pts))

CallBuildForwardDifferences == Returned("forward", buildForwardDifferences(pts))

CallBuildBackwardDifferences == Returned("backward", buildBackwardDifferences(pts))

CallBuildCentralDifferences == Returned("central", buildCentralDifferences(pts))

NextTables ==
  \/ CallGetRawForwardDifferences
  \/ CallGetRawBackwardDifferences
  \/ CallBuildForwardDifferences
  \/ CallBuildBackwardDifferences
  \/ CallBuildCentralDifferences

SpecTables == InitTables /\ [][NextTables]_vars

\* ------------------------------------------------- direct calls: evaluators
\* a caller holds a sorted, equally spaced point sequence of at least two
\* points and a finite query, and calls the evaluators on them
InitEval ==
  /\ InitApp
  /\ NoView
  /\ handler = Other
  /\ poly \in Polys
  /\ \E n \in 2..MaxN, x0 \in 0..MaxX0, h \in 1..MaxH :
       /\ pts = Samples(poly, n, x0, h)
       /\ \E j \in HalfSteps(n) : qx = QueryAt(x0, h, j)
  /\ tables = NoTables
  /\ res = NoResult
  /\ again = NoResult
  /\ pre = NoPre

\* one call per held input: the caller keeps the result it got
Evaluated(result) ==
  /\ res = NoResult
  /\ res' = result
  /\ UNCHANGED <<poly, pts, qx, tables, again, pre>>
  /\ UNCHANGED appVars
  /\ UNCHANGED viewVars

CallForward == Evaluated(forwardFormula(pts, qx))

CallBackward == Evaluated(backwardFormula(pts, qx))

CallStirling == Evaluated(stirlingFormula(pts, qx))

CallBessel == Evaluated(besselFormula(pts, qx))

CallEverett == Evaluated(everettFormula(pts, qx))

CallGaussianForward == Evaluated(gaussianForwardFormula(pts, qx))

CallGaussianBackward == Evaluated(gaussianBackwardFormula(pts, qx))

NextEval ==
  \/ CallForward
  \/ CallBackward
  \/ CallStirling
  \/ CallBessel
  \/ CallEverett
  \/ CallGaussianForward
  \/ CallGaussianBackward

SpecEval == InitEval /\ [][NextEval]_vars

\* --------------------------------------------- direct calls: preprocessPoints
\* the x-values a caller may supply: nodes, values within and at the spacing
\* tolerance of a node, and the three non-finite doubles
RawXs ==
  {R(0), R(1), R(2), <<40001, 20000>>, <<20001, 10000>>, R(3), NaN, PosInf, NegInf}

\* a caller holds any list of up to MaxRaw points, in any order, at most one
\* of whose y-values is not finite
InitPre ==
  /\ InitApp
  /\ NoView
  /\ handler = Other
  /\ poly = <<>>
  /\ \E n \in 0..MaxRaw : \E xs \in [1..n -> RawXs] : \E bad \in 0..n :
       pts = [i \in 1..n |->
                Pt(xs[i], IF i # bad THEN R(i) ELSE IF i = 1 THEN NaN ELSE PosInf)]
  /\ qx = R(0)
  /\ tables = NoTables
  /\ res = NoResult
  /\ again = NoResult
  /\ pre = NoPre

CallPreprocessPoints ==
  /\ pre = NoPre
  /\ pre' = preprocessPoints(pts)
  /\ pts' = afterSpreadSort(pts)
  /\ UNCHANGED <<poly, qx, tables, res, again>>
  /\ UNCHANGED appVars
  /\ UNCHANGED viewVars

NextPre == CallPreprocessPoints

SpecPre == InitPre /\ [][NextPre]_vars

\* -------------------------------------------------------- application state
AllMethods ==
  <<"forward", "backward", "stirling", "bessel", "everett", "gaussian-forward",
    "gaussian-backward">>

MethodIds == {AllMethods[i] : i \in DOMAIN AllMethods}

Includes(seq, m) == \E i \in DOMAIN seq : seq[i] = m

Filter(seq, m) ==
  LET keep == {i \in DOMAIN seq : seq[i] # m}
      F[i \in 0..Len(seq)] ==
        IF i = 0 THEN <<>>
        ELSE IF i \in keep THEN Append(F[i - 1], seq[i]) ELSE F[i - 1]
  IN F[Len(seq)]

\* the switch of handleCompute
Formula(method, pts0, q) ==
  CASE method = "forward" -> forwardFormula(pts0, q)
    [] method = "backward" -> backwardFormula(pts0, q)
    [] method = "stirling" -> stirlingFormula(pts0, q)
    [] method = "bessel" -> besselFormula(pts0, q)
    [] method = "everett" -> everettFormula(pts0, q)
    [] method = "gaussian-forward" -> gaussianForwardFormula(pts0, q)
    [] method = "gaussian-backward" -> gaussianBackwardFormula(pts0, q)

FormulaCall(method, pts0, q) == [method |-> method, points |-> pts0, queryX |-> q]

\* ------------------------------------- direct calls: an evaluator called twice
\* const computationTime = performance.now() - startTime: the two clock
\* readings are not arguments of the call, their difference is any value >= 0
Timed(result, elapsed) == [computationTime |-> elapsed] @@ result

\* a caller calls one evaluator on the input it holds
CallEvaluator ==
  /\ res = NoResult
  /\ \E method \in MethodIds, elapsed \in 0..MaxElapsed :
       res' = Timed(Formula(method, pts, qx), elapsed)
  /\ UNCHANGED <<poly, pts, qx, tables, again, pre>>
  /\ UNCHANGED appVars
  /\ UNCHANGED viewVars

SameEvaluator(result, elapsed) ==
  /\ result.method = res.method
  /\ again' = Timed(result, elapsed)

\* and calls the same evaluator on the same input once more
CallEvaluatorAgain ==
  /\ res # NoResult
  /\ again = NoResult
  /\ \E method \in MethodIds, elapsed \in 0..MaxElapsed :
       SameEvaluator(Formula(method, pts, qx), elapsed)
  /\ UNCHANGED <<poly, pts, qx, tables, res, pre>>
  /\ UNCHANGED appVars
  /\ UNCHANGED viewVars

NextRetry ==
  \/ CallEvaluator
  \/ CallEvaluatorAgain

SpecRetry == InitEval /\ [][NextRetry]_vars

\* what the user may type or upload: point lists and a query
XSquared(n) == Samples(<<0, 0, 1, 0, 0>>, n, 0, 1)

Reverse(seq) == [i \in 1..Len(seq) |-> seq[Len(seq) + 1 - i]]

UserPoints ==
  {XSquared(n) : n \in 1..AppMaxN}
    \cup {Reverse(XSquared(3))}
    \cup {<<Pt(R(0), R(1)), Pt(R(1), R(2)), Pt(R(3), R(4))>>,
          <<Pt(R(1), R(2)), Pt(R(1), R(5))>>,
          <<Pt(R(0), R(1)), Pt(PosInf, R(2)), Pt(R(2), NaN)>>}

UserQueries == {R(0), <<3, 2>>, NaN}

isNaN(a) == a = NaN

\* ------------------------------------- direct calls: all core operations
\* a caller holds one point list, in any order, and a finite query, and calls
\* preprocessPoints, the table builders and an evaluator on them in any order
InitCore ==
  /\ InitApp
  /\ NoView
  /\ handler = Other
  /\ poly = <<>>
  /\ pts \in UserPoints
  /\ qx \in {q \in UserQueries : isFinite(q)}
  /\ tables = NoTables
  /\ res = NoResult
  /\ again = NoResult
  /\ pre = NoPre

NextCore ==
  \/ CallPreprocessPoints
  \/ NextTables
  \/ NextEval

SpecCore == InitCore /\ [][NextCore]_vars

\* every handler ends by recording itself and the formula calls it made
Ran(name, calls) ==
  /\ handler' = name
  /\ invoked' = calls
  /\ UNCHANGED callVars
  /\ UNCHANGED viewVars

\* InputSection.handleTableSubmit
handleTableSubmit(tableData, queryValue) ==
  LET filteredData == SelectSeq(tableData, LAMBDA pt : ~isNaN(pt.x) /\ ~isNaN(pt.y))
      preprocessed == preprocessPoints(filteredData)
  IN /\ IF Len(filteredData) < 2
          THEN /\ error' = "At least 2 valid data points are required"
               /\ UNCHANGED <<points, queryX, results, equallySpaced, stepSize>>
        ELSE IF isNaN(queryValue)
          THEN /\ error' = "Please enter a valid query x value"
               /\ UNCHANGED <<points, queryX, results, equallySpaced, stepSize>>
        ELSE IF ~preprocessed.isValid
          THEN /\ error' = preprocessed.error
               /\ UNCHANGED <<points, queryX, results, equallySpaced, stepSize>>
        ELSE /\ points' = preprocessed.sortedPoints
             /\ queryX' = queryValue
             /\ results' = <<>>
             /\ equallySpaced' = preprocessed.equallySpaced
             /\ stepSize' = preprocessed.stepSize
             /\ error' = Null
     /\ isComputing' = FALSE
     /\ UNCHANGED selectedMethods
     /\ Ran(Other, <<>>)

\* InputSection.handleFileUpload, from the parsed rows on
handleFileUpload(rows) ==
  LET parsed == SelectSeq(rows, LAMBDA pt : ~isNaN(pt.x) /\ ~isNaN(pt.y))
      preprocessed == preprocessPoints(parsed)
  IN /\ IF Len(parsed) < 2
          THEN /\ error' = "CSV file must contain at least 2 valid data points"
               /\ UNCHANGED <<points, results, equallySpaced, stepSize>>
        ELSE IF ~preprocessed.isValid
          THEN /\ error' = preprocessed.error
               /\ UNCHANGED <<points, results, equallySpaced, stepSize>>
        ELSE /\ points' = preprocessed.sortedPoints
             /\ results' = <<>>
             /\ equallySpaced' = preprocessed.equallySpaced
             /\ stepSize' = preprocessed.stepSize
             /\ error' = Null
     /\ isComputing' = FALSE
     /\ UNCHANGED <<queryX, selectedMethods>>
     /\ Ran(Other, <<>>)

toggleMethodKeepingResults(method) ==
  /\ IF Includes(selectedMethods, method)
       THEN \/ Len(selectedMethods) - 1 <= MaxSelected
            \/ Len(selectedMethods) = Len(AllMethods)
       ELSE Len(selectedMethods) + 1 <= MaxSelected
  /\ selectedMethods' = IF Includes(selectedMethods, method)
                          THEN Filter(selectedMethods, method)
                          ELSE Append(selectedMethods, method)
  /\ UNCHANGED <<points, queryX, results, isComputing, error, equallySpaced, stepSize>>
  /\ Ran(Other, <<>>)

\* appReducer TOGGLE_METHOD
toggleMethod(method) ==
  /\ IF Includes(selectedMethods, method)
       THEN \/ Len(selectedMethods) - 1 <= MaxSelected
            \/ Len(selectedMethods) = Len(AllMethods)
       ELSE Len(selectedMethods) + 1 <= MaxSelected
  /\ selectedMethods' = IF Includes(selectedMethods, method)
                          THEN Filter(selectedMethods, method)
                          ELSE Append(selectedMethods, method)
  /\ results' = <<>>
  /\ UNCHANGED <<points, queryX, isComputing, error, equallySpaced, stepSize>>
  /\ Ran(Other, <<>>)

\* appReducer SELECT_ALL_METHODS
selectAllMethods ==
  /\ selectedMethods' = AllMethods
  /\ results' = <<>>
  /\ UNCHANGED <<points, queryX, isComputing, error, equallySpaced, stepSize>>
  /\ Ran(Other, <<>>)

\* appReducer CLEAR_ALL_METHODS
clearAllMethods ==
  /\ selectedMethods' = <<>>
  /\ results' = <<>>
  /\ UNCHANGED <<points, queryX, isComputing, error, equallySpaced, stepSize>>
  /\ Ran(Other, <<>>)

\* appReducer RESET
reset ==
  /\ points' = <<>>
  /\ queryX' = NullNum
  /\ selectedMethods' = <<>>
  /\ results' = <<>>
  /\ isComputing' = FALSE
  /\ error' = Null
  /\ equallySpaced' = FALSE
  /\ stepSize' = NullNum
  /\ Ran(Other, <<>>)

RecommendedMirrored(pts0, q) ==
  LET minX == At(pts0, 0).x
      maxX == At(pts0, Len(pts0) - 1).x
      range == RSub(maxX, minX)
      relativePosition == RDiv(RSub(q, minX), range)
  IN IF RLess(relativePosition, <<1, 4>>) THEN <<"forward">>
     ELSE IF RLess(<<3, 4>>, relativePosition) THEN <<"backward">>
     ELSE IF ~RLess(relativePosition, <<2, 5>>) /\ ~RLess(<<3, 5>>, relativePosition)
            /\ relativePosition # NaN
       THEN IF Len(pts0) % 2 = 0
              THEN <<"stirling", "bessel", "everett">>
              ELSE <<"stirling", "bessel">>
     ELSE IF RLess(relativePosition, Half) THEN <<"gaussian-backward", "bessel">>
     ELSE <<"gaussian-forward", "stirling">>

\* the methods the auto-select effect recommends, in dispatch order
Recommended(pts0, q) ==
  LET minX == At(pts0, 0).x
      maxX == At(pts0, Len(pts0) - 1).x
      range == RSub(maxX, minX)
      relativePosition == RDiv(RSub(q, minX), range)
  IN IF RLess(relativePosition, <<1, 4>>) THEN <<"forward">>
     ELSE IF RLess(<<3, 4>>, relativePosition) THEN <<"backward">>
     ELSE IF ~RLess(relativePosition, <<2, 5>>) /\ ~RLess(<<3, 5>>, relativePosition)
            /\ relativePosition # NaN
       THEN IF Len(pts0) % 2 = 0
              THEN <<"stirling", "bessel", "everett">>
              ELSE <<"stirling", "bessel">>
     ELSE IF RLess(relativePosition, Half) THEN <<"gaussian-forward", "stirling">>
     ELSE <<"gaussian-backward", "bessel">>

\* the selection appReducer TOGGLE_METHOD returns
toggled(selected, method) ==
  IF Includes(selected, method) THEN Filter(selected, method)
  ELSE Append(selected, method)

dispatchNone(selected, methods, rendered) == selected

\* recommendedMethods.forEach: a method missing from the rendered selection is
\* toggled on the selection as the dispatches before it left it
RECURSIVE dispatchToggles(_, _, _)
dispatchToggles(selected, methods, rendered) ==
  IF methods = <<>> THEN selected
  ELSE dispatchToggles(IF Includes(rendered, Head(methods)) THEN selected
                       ELSE toggled(selected, Head(methods)),
                       Tail(methods), rendered)

\* MethodSelector's useEffect
autoSelectEffect ==
  /\ Len(points) >= 2
  /\ queryX # NullNum
  /\ equallySpaced
  /\ Len(selectedMethods) = 0
  /\ selectedMethods' =
       dispatchToggles(selectedMethods, Recommended(points, queryX), selectedMethods)
  /\ results' = <<>>
  /\ UNCHANGED <<points, queryX, isComputing, error, equallySpaced, stepSize>>
  /\ Ran(Other, <<>>)

\* handleCompute's try block: the formulas run in selection order; the first
\* that throws ends the loop and nothing is dispatched but the error
runSelected(computed, calls) ==
  LET thrown == {i \in DOMAIN computed : computed[i].threw}
  IN IF thrown # {}
       THEN /\ error' = "Computation error"
            /\ UNCHANGED results
            /\ Ran("handleCompute",
                   SubSeq(calls, 1, CHOOSE i \in thrown : \A j \in thrown : i <= j))
       ELSE /\ error' = Null
            /\ results' = computed
            /\ Ran("handleCompute", calls)

\* handleCompute's early returns
refuse(message) ==
  /\ error' = message
  /\ UNCHANGED results
  /\ Ran("handleCompute", <<>>)

\* MethodSelector.handleCompute
handleCompute ==
  /\ IF Len(points) < 2 THEN refuse("Please provide at least 2 data points")
     ELSE IF queryX = NullNum THEN refuse("Please provide a query x value")
     ELSE IF Len(selectedMethods) = 0
       THEN refuse("Please select at least one interpolation method")
     ELSE IF ~validateEqualSpacing(points).valid
       THEN refuse(validateEqualSpacing(points).error)
     ELSE runSelected([i \in 1..Len(selectedMethods) |->
                         Formula(selectedMethods[i], points, queryX)],
                      [i \in 1..Len(selectedMethods) |->
                         FormulaCall(selectedMethods[i], points, queryX)])
  /\ isComputing' = FALSE
  /\ UNCHANGED <<points, queryX, selectedMethods, equallySpaced, stepSize>>

Init ==
  /\ InitApp
  /\ NoView
  /\ handler = Other
  /\ NoCall

Next ==
  \/ \E tableData \in UserPoints, queryValue \in UserQueries :
       handleTableSubmit(tableData, queryValue)
  \/ \E rows \in UserPoints : handleFileUpload(rows)
  \/ \E method \in MethodIds : toggleMethod(method)
  \/ selectAllMethods
  \/ clearAllMethods
  \/ reset
  \/ autoSelectEffect
  \/ handleCompute

Spec == Init /\ [][Next]_vars

\* =================================================================== claims
N == Len(pts)

ForwardShaped(t) ==
  /\ DOMAIN t = 0..(N - 1)
  /\ \A k \in 0..(N - 1) : DOMAIN t[k] = 0..(N - 1 - k)
  /\ \A i \in 0..(N - 1) : t[0][i] = At(pts, i).y
  /\ \A k \in 1..(N - 1) : \A i \in 0..(N - 1 - k) :
       t[k][i] = RSub(t[k - 1][i + 1], t[k - 1][i])

BackwardShaped(t) ==
  /\ DOMAIN t = 0..(N - 1)
  /\ DOMAIN t[0] = 0..(N - 1)
  /\ \A k \in 1..(N - 1) : DOMAIN t[k] = k..(N - 1)
  /\ \A i \in 0..(N - 1) : t[0][i] = At(pts, i).y
  /\ \A k \in 1..(N - 1) : \A i \in k..(N - 1) :
       t[k][i] = RSub(t[k - 1][i], t[k - 1][i - 1])

\* C1: every forward table returned for a point sequence of length n >= 1
\* (raw, and the ones built by buildForwardDifferences and
\* buildCentralDifferences) has order 0 equal to the input y-values in input
\* order, table[k][i] = table[k-1][i+1] - table[k-1][i] for 1 <= k <= n-1 and
\* 0 <= i <= n-1-k, and no entry at any position i > n-1-k.
C1_ForwardTable ==
  \A name \in {"rawForward", "forward", "central"} :
    name \in DOMAIN tables => ForwardShaped(tables[name])

C1_Witness ==
  /\ N >= 4
  /\ {"rawForward", "forward", "central"} \subseteq DOMAIN tables
  /\ tables["rawForward"][2][0] # R(0)
  /\ tables["rawForward"][1][0] # tables["rawForward"][1][1]

\* C2: every backward table returned for a point sequence of length n >= 1
\* (raw, and the one built by buildBackwardDifferences) has order 0 equal to
\* the input y-values in input order, table[k][i] = table[k-1][i] -
\* table[k-1][i-1] for 1 <= k <= n-1 and k <= i <= n-1, and no entry at any
\* position i < k.
C2_BackwardTable ==
  \A name \in {"rawBackward", "backward"} :
    name \in DOMAIN tables => BackwardShaped(tables[name])

C2_Witness ==
  /\ N >= 4
  /\ {"rawBackward", "backward"} \subseteq DOMAIN tables
  /\ tables["rawBackward"][2][N - 1] # R(0)
  /\ tables["rawBackward"][1][N - 1] # tables["rawBackward"][1][N - 2]

\* C3: the raw forward and backward tables of the same point sequence agree
\* on every shared difference: forward[k][i] = backward[k][i+k] for
\* 0 <= k <= n-1 and 0 <= i <= n-1-k.
C3_TablesAgree ==
  {"rawForward", "rawBackward"} \subseteq DOMAIN tables =>
    \A k \in 0..(N - 1) : \A i \in 0..(N - 1 - k) :
      /\ Defined(tables["rawForward"], k, i)
      /\ Defined(tables["rawBackward"], k, i + k)
      /\ tables["rawForward"][k][i] = tables["rawBackward"][k][i + k]

C3_Witness ==
  /\ N >= 4
  /\ {"rawForward", "rawBackward"} \subseteq DOMAIN tables
  /\ tables["rawForward"][3][0] # R(0)
  /\ tables["rawForward"][3][0] = tables["rawBackward"][3][3]


\* ---------------------------------------------------------------- evaluators
Called == res.method # "none"

\* the reference index each formula is documented to use
RefIndex(method, n) ==
  CASE method = "Forward Formula" -> 0
    [] method = "Backward Formula" -> n - 1
    [] method \in {"Stirling's Formula", "Gaussian Forward"} -> n \div 2
    [] method \in {"Bessel's Formula", "Everett's Formula"} -> (n - 1) \div 2
    [] method = "Gaussian Backward" -> (n + 1) \div 2

TermSteps == {i \in DOMAIN res.steps : res.steps[i].kind = "term"}

\* C4: evaluating at the x of the formula's reference point returns exactly
\* that point's y, for each of the seven evaluators and every n >= 2.
C4_NodeReproduced ==
  (Called /\ qx = At(pts, RefIndex(res.method, N)).x)
    => res.value = At(pts, RefIndex(res.method, N)).y

\* C5: on equally spaced samples of a polynomial of degree d <= n-1 the
\* Forward and Backward formulas add one term for every order 1..n-1, taken
\* from position 0 (Forward) or n-1 (Backward) of their table, and return the
\* polynomial's value at the query.
C5_NewtonExact ==
  (Called /\ res.method \in {"Forward Formula", "Backward Formula"}
     /\ Degree(poly) <= N - 1)
    => /\ res.value = PolyAt(poly, qx)
       /\ res.trace = [i \in 1..(N - 1) |-> <<i, TRUE>>]
       /\ \A s \in TermSteps :
            res.steps[s].reads =
              {<<res.steps[s].order,
                 IF res.method = "Forward Formula" THEN 0 ELSE N - 1>>}

\* the scenario of the specification: y = x^2 on 0..4, query 2.5, Forward 6.25
C5_Witness ==
  /\ poly = <<0, 0, 1, 0, 0>>
  /\ pts = Samples(poly, 5, 0, 1)
  /\ qx = <<5, 2>>
  /\ res.method = "Forward Formula"
  /\ res.value = <<25, 4>>

\* the evaluator went through every term block of order <= d without skipping
\* one, and applied a term of order d or higher
Covers(d) ==
  /\ \A i \in DOMAIN res.trace : res.trace[i][1] <= d => res.trace[i][2]
  /\ d = 0 \/ \E i \in DOMAIN res.trace : res.trace[i][2] /\ res.trace[i][1] >= d

\* C6: on equally spaced samples of a polynomial of degree d, each of the
\* seven evaluators returns the polynomial's value at the query whenever there
\* are at least d+1 points and the evaluator applies its terms through order d
\* or higher.
C6_PolynomialExact ==
  (Called /\ N >= Degree(poly) + 1 /\ Covers(Degree(poly)))
    => res.value = PolyAt(poly, qx)

\* the table an evaluator reads: Backward reads the backward table, the other
\* six the forward table
ValidPosition(method, k, i) ==
  IF method = "Backward Formula"
    THEN k \in 0..(N - 1) /\ i \in k..(N - 1)
    ELSE k \in 0..(N - 1) /\ i \in 0..(N - 1 - k)

\* C7: every table entry that enters a term added to the result lies at a
\* valid position of the table; no default stands in for an absent entry.
C7_NoDefaultForAbsent ==
  Called =>
    \A s \in TermSteps : \A e \in res.steps[s].reads :
      ValidPosition(res.method, e[1], e[2])

\* C8: terms are gone through in increasing difference order, and once a term
\* of some order is skipped no term of a higher order is added.
C8_MonotoneTruncation ==
  Called =>
    \A i, j \in DOMAIN res.trace :
      i < j =>
        /\ res.trace[i][1] <= res.trace[j][1]
        /\ ~(~res.trace[i][2] /\ res.trace[j][2] /\ res.trace[j][1] > res.trace[i][1])

\* a term was applied, a later one skipped, and later term blocks remained
C8_Witness ==
  /\ Called
  /\ \E i, j, k \in DOMAIN res.trace :
       /\ i < j /\ j < k
       /\ res.trace[i][2] /\ ~res.trace[j][2]
       /\ res.trace[k][1] > res.trace[j][1]

PointReads(method, n) ==
  CASE method = "Forward Formula" -> forwardPointReads(n)
    [] method = "Backward Formula" -> backwardPointReads(n)
    [] method = "Stirling's Formula" -> stirlingPointReads(n)
    [] method = "Bessel's Formula" -> besselPointReads(n)
    [] method = "Everett's Formula" -> everettPointReads(n)
    [] method = "Gaussian Forward" -> gaussianForwardPointReads(n)
    [] method = "Gaussian Backward" -> gaussianBackwardPointReads(n)

EquallySpacedData(pts0) ==
  /\ Len(pts0) >= 2
  /\ \A i \in DOMAIN pts0 : isFinite(pts0[i].x) /\ isFinite(pts0[i].y)
  /\ \A i \in 1..(Len(pts0) - 1) : RLess(pts0[i].x, pts0[i + 1].x)
  /\ \A i \in 1..(Len(pts0) - 1) :
       ~RLess(<<1, 10000>>,
              RAbs(RSub(RSub(pts0[i + 1].x, pts0[i].x), RSub(pts0[2].x, pts0[1].x))))

ComputeChecksPass ==
  /\ Len(points) >= 2
  /\ queryX # NullNum
  /\ Len(selectedMethods) > 0
  /\ EquallySpacedData(points)

\* C10: handleCompute calls a formula only on the points and query of the
\* state, and only when there are at least 2 points, a query, a selected
\* method and equally spaced data; when a check fails it sets an error, calls
\* no formula and leaves results unchanged.
C10_ComputeGuarded ==
  [][handler' = "handleCompute" =>
       /\ \A i \in DOMAIN invoked' :
            /\ ComputeChecksPass
            /\ invoked'[i].points = points
            /\ invoked'[i].queryX = queryX
            /\ EquallySpacedData(invoked'[i].points)
       /\ ComputeChecksPass => invoked' # <<>>
       /\ ~ComputeChecksPass =>
            /\ error' # Null
            /\ invoked' = <<>>
            /\ results' = results]_vars

\* handleCompute has just refused unequally spaced data
C10_Witness ==
  /\ handler = "handleCompute"
  /\ Len(points) >= 2
  /\ queryX # NullNum
  /\ Len(selectedMethods) > 0
  /\ ~EquallySpacedData(points)
  /\ error = UnequalMessage
  /\ invoked = <<>>
  /\ results = <<>>


\* --------------------------------------------------- Bessel and Stirling sums
\* (y0+y1)/2 + (p-1/2) D1[mid] + p(p-1)/2! (D2[mid-1]+D2[mid])/2
\*   + p(p-1)(p-1/2)/3! D3[mid-1], a term counted only when its entries exist
BesselSum(pts0, q) ==
  LET n == Len(pts0)
      mid == (n - 1) \div 2
      h == RSub(At(pts0, 1).x, At(pts0, 0).x)
      p == RDiv(RSub(q, At(pts0, mid).x), h)
      D == getRawForwardDifferences(pts0)
      pp == RMul(p, RSub(p, R(1)))
      t1 == IF Defined(D, 1, mid) THEN RMul(RSub(p, Half), D[1][mid]) ELSE R(0)
      t2 == IF Defined(D, 2, mid - 1) /\ Defined(D, 2, mid)
              THEN RMul(RDiv(pp, R(2)), RDiv(RAdd(D[2][mid - 1], D[2][mid]), R(2)))
              ELSE R(0)
      t3 == IF Defined(D, 3, mid - 1)
              THEN RMul(RDiv(RMul(pp, RSub(p, Half)), R(6)), D[3][mid - 1])
              ELSE R(0)
  IN RAdd(RAdd(RAdd(RDiv(RAdd(At(pts0, mid).y, At(pts0, mid + 1).y), R(2)), t1),
               t2), t3)

\* C11: besselFormula returns (y0+y1)/2 + (p-0.5) D1[mid]
\* + p(p-1)/2! (D2[mid-1]+D2[mid])/2 + p(p-1)(p-0.5)/3! D3[mid-1] with
\* mid = floor((n-1)/2) and p = (x - x0)/h, each term included only when its
\* table entries exist.
C11_BesselSum ==
  (Called /\ res.method = "Bessel's Formula") => res.value = BesselSum(pts, qx)

\* y0 + p (D1[mid]+D1[mid-1])/2 + p^2/2! D2[mid-1]
\*   + p(p^2-1)/3! (D3[mid-1]+D3[mid-2])/2 + p^2(p^2-1)/4! D4[mid-2]
StirlingSum(pts0, q) ==
  LET n == Len(pts0)
      mid == n \div 2
      h == RSub(At(pts0, 1).x, At(pts0, 0).x)
      p == RDiv(RSub(q, At(pts0, mid).x), h)
      D == getRawForwardDifferences(pts0)
      p2 == RMul(p, p)
      p2m1 == RSub(p2, R(1))
      t1 == IF Defined(D, 1, mid) /\ Defined(D, 1, mid - 1)
              THEN RMul(p, RDiv(RAdd(D[1][mid], D[1][mid - 1]), R(2)))
              ELSE R(0)
      t2 == IF Defined(D, 2, mid - 1)
              THEN RMul(RDiv(p2, R(2)), D[2][mid - 1])
              ELSE R(0)
      t3 == IF Defined(D, 3, mid - 1) /\ Defined(D, 3, mid - 2)
              THEN RMul(RDiv(RMul(p, p2m1), R(6)),
                        RDiv(RAdd(D[3][mid - 1], D[3][mid - 2]), R(2)))
              ELSE R(0)
      t4 == IF Defined(D, 4, mid - 2)
              THEN RMul(RDiv(RMul(p2, p2m1), R(24)), D[4][mid - 2])
              ELSE R(0)
  IN RAdd(RAdd(RAdd(RAdd(At(pts0, mid).y, t1), t2), t3), t4)

\* C12: stirlingFormula returns y0 + p (D1[mid]+D1[mid-1])/2 + p^2/2! D2[mid-1]
\* + p(p^2-1)/3! (D3[mid-1]+D3[mid-2])/2 + p^2(p^2-1)/4! D4[mid-2] with
\* mid = floor(n/2) and p = (x - x0)/h; the order-4 term is applied whenever
\* D4[mid-2] exists.
C12_StirlingSum ==
  (Called /\ res.method = "Stirling's Formula") => res.value = StirlingSum(pts, qx)

\* ------------------------------------------------------------------- Everett
StartSteps == {i \in DOMAIN res.steps : res.steps[i].kind = "start"}

PreCalled == pre # NoPre

DuplicateError == "Duplicate x-values detected. Each x must be unique."

NonFiniteError == "Invalid data: points contain NaN or Infinity values."

FiniteXs == \A i \in DOMAIN pts : isFinite(pts[i].x)

AllFinite == \A i \in DOMAIN pts : isFinite(pts[i].x) /\ isFinite(pts[i].y)

EqualXs == \E i, j \in DOMAIN pts : i < j /\ pts[i].x = pts[j].x

\* the count, duplicate and finiteness checks all pass
PassesChecks == Len(pts) >= 2 /\ ~EqualXs /\ AllFinite

\* C14: for an input of at least 2 points with finite x-values,
\* preprocessPoints fails with the duplicate-x error (isValid false,
\* sortedPoints empty) exactly when two supplied x-values are equal; x-values
\* closer than 1e-4 that are not equal are not duplicates.
C14_DuplicateExact ==
  (PreCalled /\ Len(pts) >= 2 /\ FiniteXs) =>
    /\ (pre.error = DuplicateError) <=> EqualXs
    /\ EqualXs => ~pre.isValid /\ pre.sortedPoints = <<>>
    /\ (~EqualXs /\ AllFinite) => pre.isValid

\* two x-values 0.00005 apart are accepted
C14_Witness ==
  /\ PreCalled
  /\ \E i, j \in DOMAIN pts : pts[i].x = R(2) /\ pts[j].x = <<40001, 20000>>
  /\ pre.isValid
  /\ Len(pre.sortedPoints) = Len(pts)

\* C15: for every input of at least 2 points in which some x or y is NaN,
\* +Infinity or -Infinity, preprocessPoints fails with the non-finite-value
\* error and no other, also when the non-finite value occurs more than once
\* among the x-values.
C15_NonFiniteError ==
  (PreCalled /\ Len(pts) >= 2 /\ ~AllFinite) =>
    ~pre.isValid /\ pre.error = NonFiniteError

\* C16: for every input that passes the count, duplicate and finiteness
\* checks, sortedPoints is a permutation of the input points with strictly
\* ascending x.
C16_SortedPermutation ==
  (PreCalled /\ PassesChecks) =>
    /\ Len(pre.sortedPoints) = Len(pts)
    /\ {pre.sortedPoints[i] : i \in DOMAIN pre.sortedPoints}
         = {pts[i] : i \in DOMAIN pts}
    /\ \A i \in 1..(Len(pre.sortedPoints) - 1) :
         RLess(pre.sortedPoints[i].x, pre.sortedPoints[i + 1].x)

\* three points supplied in descending order come back reordered
C16_Witness ==
  /\ PreCalled
  /\ PassesChecks
  /\ Len(pts) = 3
  /\ RLess(pts[3].x, pts[2].x) /\ RLess(pts[2].x, pts[1].x)
  /\ pre.sortedPoints # pts
  /\ pre.sortedPoints[1] = pts[3]

\* every consecutive gap of the sorted x-values is within 1e-4 of the first
GapsWithinTolerance(sorted) ==
  \A i \in 2..(Len(sorted) - 1) :
    ~RLess(<<1, 10000>>,
           RAbs(RSub(RSub(sorted[i + 1].x, sorted[i].x),
                     RSub(sorted[2].x, sorted[1].x))))

\* C17: for every input that passes the count, duplicate and finiteness
\* checks, preprocessPoints returns a valid result without error whose
\* equallySpaced flag is true iff every consecutive gap of the sorted x-values
\* differs from the first gap by at most 1e-4; unequal spacing is reported as
\* equallySpaced = false, not as an error.
C17_EquallySpacedFlag ==
  (PreCalled /\ PassesChecks) =>
    /\ pre.isValid
    /\ pre.error = Null
    /\ pre.equallySpaced <=> GapsWithinTolerance(pre.sortedPoints)
    /\ pre.equallySpaced =>
         pre.stepSize = RSub(pre.sortedPoints[2].x, pre.sortedPoints[1].x)
    /\ ~pre.equallySpaced => pre.stepSize = NullNum

\* x = 0, 1, 3: valid, and not equally spaced
C17_Witness ==
  /\ PreCalled
  /\ Len(pts) = 3
  /\ pts[1].x = R(0) /\ pts[2].x = R(1) /\ pts[3].x = R(3)
  /\ AllFinite
  /\ pre.isValid
  /\ pre.error = Null
  /\ ~pre.equallySpaced

\* ----------------------------------------------------------------- warnings
OutsideRange == RLess(qx, At(pts, 0).x) \/ RLess(At(pts, N - 1).x, qx)

\* the parameter u or p of the evaluator that returned res
Parameter ==
  RDiv(RSub(qx, At(pts, RefIndex(res.method, N)).x),
       RSub(At(pts, 1).x, At(pts, 0).x))

\* C18: for each of the seven evaluators the result carries the extrapolation
\* warning exactly when queryX < points[0].x or queryX > points[n-1].x, also
\* when the parameter is off-center, and the interpolated value is still
\* computed and returned.
C18_ExtrapolationWarning ==
  Called =>
    /\ (res.warning = "extrapolation") <=> OutsideRange
    /\ ~res.threw
    /\ isFinite(res.value)
    /\ res.steps[Len(res.steps)].kind = "final"
    /\ res.steps[Len(res.steps)].value = res.value

\* Forward queried half a step beyond the last point: u > 0.5 as well, and the
\* warning is the extrapolation one
C18_Witness ==
  /\ Called
  /\ res.method = "Forward Formula"
  /\ N >= 3
  /\ RLess(At(pts, N - 1).x, qx)
  /\ RLess(Half, Parameter)
  /\ res.warning = "extrapolation"
  /\ isFinite(res.value)

\* the parameter lies beyond the off-center threshold of the evaluator;
\* Everett, which straddles the same gap as Bessel, is given Bessel's
\* threshold: whichever threshold it had would be passed by some query of
\* the range
OffCenter ==
  CASE res.method = "Forward Formula" -> RLess(Half, Parameter)
    [] res.method = "Backward Formula" -> RLess(Parameter, RNeg(Half))
    [] res.method = "Stirling's Formula" -> RLess(Half, RAbs(Parameter))
    [] res.method \in {"Bessel's Formula", "Everett's Formula"} ->
         RLess(Half, RAbs(RSub(Parameter, Half)))
    [] res.method = "Gaussian Forward" -> RLess(Half, Parameter)
    [] res.method = "Gaussian Backward" -> RLess(Parameter, RNeg(Half))

\* C19: each of the seven evaluators has an off-center threshold on its
\* parameter: for a query inside the data range the result carries a warning
\* when the parameter lies beyond the threshold and no warning when it lies
\* within it.
C19_OffCenterWarning ==
  (Called /\ ~OutsideRange) => ((res.warning # "none") <=> OffCenter)

\* -------------------------------------------------------------- determinism
\* C20: calling the same evaluator twice on the same (points, queryX) returns
\* two identical InterpolationResult records: same method, value, steps,
\* warning and every other field.
C20_Deterministic ==
  (res # NoResult /\ again # NoResult) => again = res

\* ------------------------------------------------------------ no mutation
\* C21: no core operation mutates its input: after preprocessPoints, any of
\* the five table builders or any of the seven evaluators returns, the
\* caller's points have the same length, order and (x, y) values as before
\* the call, and a table or result returned by an earlier call is unchanged
\* by a later call.
C21_InputsUntouched ==
  [][/\ pts' = pts
     /\ qx' = qx
     /\ \A name \in DOMAIN tables :
          name \in DOMAIN tables' /\ tables'[name] = tables[name]
     /\ res # NoResult => res' = res
     /\ pre # NoPre => pre' = pre]_vars

\* every operation has been called on a list supplied in descending order:
\* the sorted copy differs from the caller's list, which is as supplied
C21_Witness ==
  /\ pts = Reverse(XSquared(3))
  /\ pre # NoPre
  /\ pre.sortedPoints = XSquared(3)
  /\ DOMAIN tables = {"rawForward", "rawBackward", "forward", "backward", "central"}
  /\ res # NoResult
  /\ ~res.threw

\* ------------------------------------------- NoiseAnalysis: the analysis memo
\* a column of the raw table is a function on 0..(m - 1)
RECURSIVE sumFirst(_, _)
sumFirst(vals, m) ==
  IF m = 0 THEN R(0) ELSE RAdd(sumFirst(vals, m - 1), vals[m - 1])

length(vals) == Cardinality(DOMAIN vals)

mean(vals) == RDiv(sumFirst(vals, length(vals)), R(length(vals)))

\* vals.reduce((sum, v) => sum + Math.pow(v - mean, 2), 0) / vals.length
variance(vals) ==
  LET m == mean(vals)
      squares == [i \in DOMAIN vals |-> RMul(RSub(vals[i], m), RSub(vals[i], m))]
  IN RDiv(sumFirst(squares, length(vals)), R(length(vals)))

mathMax(vals) == CHOOSE v \in {vals[i] : i \in DOMAIN vals} :
                   \A i \in DOMAIN vals : ~RLess(v, vals[i])

mathMin(vals) == CHOOSE v \in {vals[i] : i \in DOMAIN vals} :
                   \A i \in DOMAIN vals : ~RLess(vals[i], v)

range(vals) == RSub(mathMax(vals), mathMin(vals))

\* stdDev = Math.sqrt(variance) is not rational: the model keeps the square
\* of every noise ratio, (stdDev / yRange * 100)^2 = variance / yRange^2 * 10000
noiseRatioUnguarded(var, yRange) ==
  RMul(RDiv(var, RMul(yRange, yRange)), R(10000))

noiseRatioSquared(var, yRange) ==
  IF RLess(R(0), yRange) THEN RMul(RDiv(var, RMul(yRange, yRange)), R(10000))
  ELSE R(0)

\* noiseRatio < cutoff, for a ratio >= 0 kept as its square
below(ratioSquared, cutoff) == RLess(ratioSquared, R(cutoff * cutoff))

usabilityOneScale(order, ratioSquared) ==
  IF below(ratioSquared, 50) THEN "excellent"
  ELSE IF below(ratioSquared, 100) THEN "good" ELSE "marginal"

usability(order, ratioSquared) ==
  IF order = 1
    THEN (IF below(ratioSquared, 50) THEN "excellent"
          ELSE IF below(ratioSquared, 100) THEN "good" ELSE "marginal")
  ELSE IF order = 2
    THEN (IF below(ratioSquared, 30) THEN "good"
          ELSE IF below(ratioSquared, 80) THEN "marginal" ELSE "unreliable")
  ELSE IF order = 3
    THEN (IF below(ratioSquared, 20) THEN "marginal"
          ELSE IF below(ratioSquared, 60) THEN "unreliable" ELSE "unusable")
  ELSE (IF below(ratioSquared, 10) THEN "unreliable" ELSE "unusable")

OrderStat(order, vals, ratioSquared, grade) ==
  [order |-> order, values |-> vals, mean |-> mean(vals),
   variance |-> variance(vals), range |-> range(vals),
   noiseRatioSquared |-> ratioSquared, usability |-> grade]

\* for (let order = 1; order < Math.min(n, 5); order++)
RECURSIVE orderLoop(_, _, _, _, _)
orderLoop(differences, yRange, n, order, orderStats) ==
  IF order >= n \/ order >= 5 THEN orderStats
  ELSE IF order \notin DOMAIN differences \/ length(differences[order]) = 0
    THEN orderLoop(differences, yRange, n, order + 1, orderStats)
  ELSE LET vals == differences[order]
           ratioSquared == noiseRatioSquared(variance(vals), yRange)
       IN orderLoop(differences, yRange, n, order + 1,
                    Append(orderStats,
                           OrderStat(order, vals, ratioSquared,
                                     usability(order, ratioSquared))))

\* orderStats.find(s => s.order === order)?.noiseRatio || 0
noiseOf(orderStats, order) ==
  LET found == {i \in DOMAIN orderStats : orderStats[i].order = order}
      ratioSquared == IF found = {} THEN Undefined
                      ELSE orderStats[CHOOSE i \in found : TRUE].noiseRatioSquared
  IN IF ratioSquared = Undefined \/ ratioSquared = NaN THEN R(0) ELSE ratioSquared

overallFromFirstOnly(firstOrderNoise, secondOrderNoise) ==
  IF below(firstOrderNoise, 20) THEN "low"
  ELSE IF below(firstOrderNoise, 50) THEN "moderate"
  ELSE IF below(firstOrderNoise, 100) THEN "high"
  ELSE "very-high"

overallNoiseLevel(firstOrderNoise, secondOrderNoise) ==
  IF below(firstOrderNoise, 20) /\ below(secondOrderNoise, 40) THEN "low"
  ELSE IF below(firstOrderNoise, 50) /\ below(secondOrderNoise, 80) THEN "moderate"
  ELSE IF below(firstOrderNoise, 100) THEN "high"
  ELSE "very-high"

RECURSIVE maxRecommendedOrder(_, _)
maxRecommendedOrder(orderStats, k) ==
  IF k = 0 THEN 1
  ELSE LET max == maxRecommendedOrder(orderStats, k - 1)
           stat == orderStats[k]
       IN IF stat.order > 0 /\ stat.usability \in {"excellent", "good", "marginal"}
            THEN (IF stat.order > max THEN stat.order ELSE max)
          ELSE max

NullAnalysis == [memo |-> "null"]

noiseAnalysis(pts0) ==
  IF Len(pts0) < 3 THEN NullAnalysis
  ELSE LET differences == getRawForwardDifferences(pts0)
           n == Len(pts0)
           yValues == differences[0]
           yRange == range(yValues)
           orderStats ==
             orderLoop(differences, yRange, n, 1,
                       <<OrderStat(0, yValues, R(0), "excellent")>>)
       IN [orderStats |-> orderStats,
           overallNoiseLevel |->
             overallNoiseLevel(noiseOf(orderStats, 1), noiseOf(orderStats, 2)),
           maxRecommendedOrder |-> maxRecommendedOrder(orderStats, Len(orderStats)),
           dataPoints |-> Len(pts0)]

\* the component is rendered over any state.points with whole y-values
InitNoise ==
  /\ \E n \in 2..MaxNoiseN : \E ys \in [1..n -> 0..MaxY] :
       points = [i \in 1..n |-> Pt(R(i - 1), R(ys[i]))]
  /\ queryX = NullNum
  /\ selectedMethods = <<>>
  /\ results = <<>>
  /\ isComputing = FALSE
  /\ error = Null
  /\ equallySpaced = TRUE
  /\ stepSize = R(1)
  /\ handler = Other
  /\ invoked = <<>>
  /\ NoCall
  /\ NoView

\* useMemo(() => ..., [points]) on the first render
ComputeAnalysis ==
  /\ analysis = NotComputed
  /\ analysis' = noiseAnalysis(points)
  /\ UNCHANGED <<curve, selectedDataset, isLoading, metadata, loadedPoints, fetching>>
  /\ UNCHANGED appVars
  /\ UNCHANGED callVars

NextNoise == ComputeAnalysis

SpecNoise == InitNoise /\ [][NextNoise]_vars

Analysed == analysis # NotComputed /\ analysis # NullAnalysis

StatOf(order) ==
  analysis.orderStats[CHOOSE i \in DOMAIN analysis.orderStats :
                        analysis.orderStats[i].order = order]

Orders == {analysis.orderStats[i].order : i \in DOMAIN analysis.orderStats}

\* C22: order 0 is always 'excellent', and the usability of each order k >= 1
\* is the fixed function of that order's noise ratio r (kept squared): order 1:
\* r < 50 excellent, r < 100 good, else marginal; order 2: r < 30 good, r < 80
\* marginal, else unreliable; order 3: r < 20 marginal, r < 60 unreliable, else
\* unusable; order >= 4: r < 10 unreliable, else unusable
Graded(low, lowGrade, high, highGrade, elseGrade, stat) ==
  stat.usability =
    IF RLess(stat.noiseRatioSquared, R(low * low)) THEN lowGrade
    ELSE IF RLess(stat.noiseRatioSquared, R(high * high)) THEN highGrade
    ELSE elseGrade

C22_UsabilityThresholds ==
  Analysed =>
    /\ StatOf(0).usability = "excellent"
    /\ \A k \in Orders \ {0} :
         CASE k = 1 -> Graded(50, "excellent", 100, "good", "marginal", StatOf(k))
           [] k = 2 -> Graded(30, "good", 80, "marginal", "unreliable", StatOf(k))
           [] k = 3 -> Graded(20, "marginal", 60, "unreliable", "unusable", StatOf(k))
           [] OTHER -> Graded(10, "unreliable", 10, "unreliable", "unusable", StatOf(k))

\* a dataset of five points graded on all four scales
C22_Witness ==
  /\ Analysed
  /\ Orders = 0..4
  /\ StatOf(1).usability = "excellent"
  /\ StatOf(2).usability = "marginal"
  /\ StatOf(3).usability = "unusable"
  /\ StatOf(4).usability = "unusable"

RatioOf(order) ==
  IF order \in Orders THEN StatOf(order).noiseRatioSquared ELSE R(0)

Under(ratioSquared, cutoff) == RLess(ratioSquared, R(cutoff * cutoff))

\* C23: the overall noise level is determined by the order-1 ratio r1 and the
\* order-2 ratio r2 alone (a missing order counting as 0): 'low' when r1 < 20
\* and r2 < 40; otherwise 'moderate' when r1 < 50 and r2 < 80; otherwise 'high'
\* when r1 < 100; otherwise 'very-high'
C23_OverallLevel ==
  Analysed =>
    analysis.overallNoiseLevel =
      IF Under(RatioOf(1), 20) /\ Under(RatioOf(2), 40) THEN "low"
      ELSE IF Under(RatioOf(1), 50) /\ Under(RatioOf(2), 80) THEN "moderate"
      ELSE IF Under(RatioOf(1), 100) THEN "high"
      ELSE "very-high"

\* a dataset whose first-order ratio alone would read 'moderate' and whose
\* second-order ratio makes it 'high'
C23_Witness ==
  /\ Analysed
  /\ ~Under(RatioOf(1), 20)
  /\ Under(RatioOf(1), 50)
  /\ ~Under(RatioOf(2), 80)
  /\ analysis.overallNoiseLevel = "high"

AllYEqual == \A i, j \in DOMAIN points : points[i].y = points[j].y

\* C24: for every dataset of at least 3 points whose y-values are all equal,
\* the analysis reports order-0 range 0, noise ratio 0 for every order >= 1
\* and overall level 'low'
C24_ConstantData ==
  (analysis # NotComputed /\ Len(points) >= 3 /\ AllYEqual) =>
    /\ analysis # NullAnalysis
    /\ StatOf(0).range = R(0)
    /\ \A k \in Orders \ {0} : StatOf(k).noiseRatioSquared = R(0)
    /\ analysis.overallNoiseLevel = "low"

\* six points of constant nonzero y, analysed up to order 4
C24_Witness ==
  /\ Analysed
  /\ AllYEqual
  /\ points[1].y = R(2)
  /\ Orders = 0..4
  /\ \A k \in 1..4 : StatOf(k).noiseRatioSquared = R(0)

\* ------------------------------------------------ the auto-select effect
\* tables whose x-range is split into Grid parts, with 2 and with 3 points
GridPoints ==
  {<<Pt(R(0), R(0)), Pt(R(Grid), R(1))>>,
   <<Pt(R(0), R(0)), Pt(RDiv(R(Grid), R(2)), R(1)), Pt(R(Grid), R(4))>>}

\* queries on the grid marks, one mark outside on either side
GridQueries == {R(k) : k \in (-1)..(Grid + 1)}

\* the effect has run for the rendered state unless its condition holds
effectPending ==
  /\ Len(points) >= 2
  /\ queryX # NullNum
  /\ equallySpaced
  /\ Len(selectedMethods) = 0

\* React flushes a pending passive effect before it handles the next event
userEvent(handled) == ~effectPending /\ handled

NextSelect ==
  \/ userEvent(\E tableData \in GridPoints, queryValue \in GridQueries :
                 handleTableSubmit(tableData, queryValue))
  \/ userEvent(\E method \in MethodIds : toggleMethod(method))
  \/ userEvent(selectAllMethods)
  \/ userEvent(clearAllMethods)
  \/ userEvent(reset)
  \/ autoSelectEffect

SpecSelect == Init /\ [][NextSelect]_vars

\* the effect runs after every render whose state satisfies its condition
FairSelect == SpecSelect /\ WF_vars(autoSelectEffect)

relativePosition ==
  RDiv(RSub(queryX, At(points, 0).x),
       RSub(At(points, Len(points) - 1).x, At(points, 0).x))

Within(lo, r, hi) == ~RLess(r, lo) /\ ~RLess(hi, r) /\ r # NaN

Percent(k) == RDiv(R(k), R(100))

Selected == {selectedMethods'[i] : i \in DOMAIN selectedMethods'}

\* C25: when at least 2 equally spaced points and a query are loaded and no
\* method is selected, the automatic selection picks by the query's relative
\* position r: 0-25% Forward only; 25-40% Gaussian Forward and Stirling;
\* 40-60% Stirling and Bessel, with or without Everett; 60-75% Gaussian
\* Backward and Bessel; 75-100% Backward only (a band's end belongs to either
\* neighbour)
C25_AutoSelectByPosition ==
  [][(effectPending /\ selectedMethods' # selectedMethods
        /\ Within(R(0), relativePosition, R(1))) =>
       \/ /\ Within(R(0), relativePosition, Percent(25))
          /\ Selected = {"forward"}
       \/ /\ Within(Percent(25), relativePosition, Percent(40))
          /\ Selected = {"gaussian-forward", "stirling"}
       \/ /\ Within(Percent(40), relativePosition, Percent(60))
          /\ Selected \in {{"stirling", "bessel"}, {"stirling", "bessel", "everett"}}
       \/ /\ Within(Percent(60), relativePosition, Percent(75))
          /\ Selected = {"gaussian-backward", "bessel"}
       \/ /\ Within(Percent(75), relativePosition, R(1))
          /\ Selected = {"backward"}]_vars

\* the effect has selected for a query at 30% of a three-point range
C25_Witness ==
  /\ Len(points) = 3
  /\ equallySpaced
  /\ relativePosition = Percent(30)
  /\ selectedMethods = <<"gaussian-forward", "stirling">>

InputsKept ==
  /\ points' = points
  /\ queryX' = queryX
  /\ selectedMethods' = selectedMethods

ComputedFromInputs ==
  /\ handler' = "handleCompute"
  /\ Len(results') = Len(selectedMethods')
  /\ Len(invoked') = Len(selectedMethods')
  /\ \A i \in DOMAIN results' :
       /\ invoked'[i] = FormulaCall(selectedMethods'[i], points', queryX')
       /\ results'[i] = Formula(selectedMethods'[i], points', queryX')

\* C26: displayed results are never stale: after every step, results that are
\* non-empty are either the results of before with points, queryX and
\* selectedMethods all unchanged, or were computed by this step from the
\* points, queryX and selectedMethods now in the state
C26_ResultsNeverStale ==
  [][results' # <<>> => ((results' = results /\ InputsKept) \/ ComputedFromInputs)]_vars

\* results on display for two methods, computed from the inputs in the state
C26_Witness ==
  /\ Len(results) = 2
  /\ selectedMethods = <<"forward", "backward">>
  /\ points = XSquared(3)
  /\ queryX = <<3, 2>>
  /\ invoked = <<FormulaCall("forward", points, queryX),
                 FormulaCall("backward", points, queryX)>>

\* the orders of the term blocks that added a term, in program order
AppliedOrders == SelectSeq(res.trace, LAMBDA block : block[2])

Accumulates(i) ==
  /\ i > 1
  /\ res.steps[i - 1].kind \in {"start", "term"}
  /\ res.steps[i].value = RAdd(res.steps[i - 1].value, res.steps[i].term)

\* C27: in every result returned by an evaluator the steps are in evaluation
\* order (one start step, then one step per added term in the order the terms
\* were added, then the final step), the value of each added-term step is the
\* previous accumulator plus the term, and the value of the final step is the
\* returned value
C27_StepsFollowAccumulator ==
  (Called /\ ~res.threw) =>
    LET last == Len(res.steps)
        start == CHOOSE i \in StartSteps : TRUE
    IN /\ Cardinality(StartSteps) = 1
       /\ res.steps[last].kind = "final"
       /\ TermSteps = (start + 1)..(last - 1)
       /\ Len(AppliedOrders) = Cardinality(TermSteps)
       /\ \A k \in 1..Len(AppliedOrders) :
            res.steps[start + k].order = AppliedOrders[k][1]
       /\ \A i \in TermSteps : Accumulates(i)
       /\ res.steps[last].value = res.steps[last - 1].value
       /\ res.steps[last].value = res.value

\* a result with four added terms, none of them zero
C27_Witness ==
  /\ Called
  /\ ~res.threw
  /\ Cardinality(TermSteps) = 4
  /\ \A i \in TermSteps : res.steps[i].term # R(0) /\ isFinite(res.steps[i].term)
  /\ res.steps[Len(res.steps)].value = res.value

NoDuplicates(seq) == \A i, j \in DOMAIN seq : seq[i] = seq[j] => i = j

\* C28: whenever the state has at least 2 points, a query and equallySpaced,
\* an empty selection does not persist: the effect toggles on a non-empty set
\* of distinct recommended methods, so the selection eventually is non-empty
\* and without duplicates
C28_EmptySelectionRefilled ==
  effectPending ~> (selectedMethods # <<>> /\ NoDuplicates(selectedMethods))

\* three distinct methods, more than toggles by hand reach, selected by the
\* effect for a query at the centre of a two-point table
C28_Witness ==
  /\ Len(points) = 2
  /\ equallySpaced
  /\ relativePosition = Half
  /\ selectedMethods = <<"stirling", "bessel", "everett">>
  /\ NoDuplicates(selectedMethods)

\* ----------------------------------------- Visualization: curve evaluators
\* an entry read from the raw table inside arithmetic: undefined gives NaN
read(table, col, row) == IF Defined(table, col, row) THEN table[col][row] ELSE NaN

\* entry || 0
readOrZero(table, col, row) ==
  IF Defined(table, col, row) /\ table[col][row] # NaN THEN table[col][row] ELSE R(0)

RECURSIVE evaluateForwardLoop(_, _, _, _, _)
evaluateForwardLoop(result, diffTable, u, i, n) ==
  IF i >= n THEN result
  ELSE IF Defined(diffTable, i, 0)
    THEN evaluateForwardLoop(
           RAdd(result, RMul(RDiv(fallingProduct(u, u, 1, i), R(factorial(i))),
                             diffTable[i][0])),
           diffTable, u, i + 1, n)
  ELSE evaluateForwardLoop(result, diffTable, u, i + 1, n)

evaluateForward(pts0, x, h) ==
  LET n == Len(pts0)
      u == RDiv(RSub(x, At(pts0, 0).x), h)
  IN evaluateForwardLoop(At(pts0, 0).y, getRawForwardDifferences(pts0), u, 1, n)

RECURSIVE evaluateBackwardLoop(_, _, _, _, _)
evaluateBackwardLoop(result, diffTable, u, i, n) ==
  IF i >= n THEN result
  ELSE IF Defined(diffTable, i, n - 1)
    THEN evaluateBackwardLoop(
           RAdd(result, RMul(RDiv(risingProduct(u, u, 1, i), R(factorial(i))),
                             diffTable[i][n - 1])),
           diffTable, u, i + 1, n)
  ELSE evaluateBackwardLoop(result, diffTable, u, i + 1, n)

evaluateBackward(pts0, x, h) ==
  LET n == Len(pts0)
      u == RDiv(RSub(x, At(pts0, n - 1).x), h)
  IN evaluateBackwardLoop(At(pts0, n - 1).y, getRawBackwardDifferences(pts0), u, 1, n)

\* result += coefficient * entry when the guard of the block holds
plus(result, guard, coefficient, entry) ==
  IF guard THEN RAdd(result, RMul(coefficient, entry)) ELSE result

average(a, b) == RDiv(RAdd(a, b), R(2))

evaluateStirling(pts0, x, h) ==
  LET n == Len(pts0)
      midIndex == n \div 2
      u == RDiv(RSub(x, At(pts0, midIndex).x), h)
      uu == RMul(u, u)
      fwdDiff == getRawForwardDifferences(pts0)
      r0 == At(pts0, midIndex).y
      r1 == plus(r0, 1 \in DOMAIN fwdDiff /\ midIndex > 0 /\ midIndex < n, u,
                 average(read(fwdDiff, 1, midIndex - 1), read(fwdDiff, 1, midIndex)))
      r2 == plus(r1, 2 \in DOMAIN fwdDiff /\ midIndex > 0, RDiv(uu, R(2)),
                 read(fwdDiff, 2, midIndex - 1))
      r3 == plus(r2, 3 \in DOMAIN fwdDiff /\ midIndex > 1 /\ midIndex < n - 1,
                 RDiv(RMul(u, RSub(uu, R(1))), R(6)),
                 average(read(fwdDiff, 3, midIndex - 2), read(fwdDiff, 3, midIndex - 1)))
  IN plus(r3, 4 \in DOMAIN fwdDiff /\ midIndex > 1,
          RDiv(RMul(uu, RSub(uu, R(1))), R(24)), read(fwdDiff, 4, midIndex - 2))

evaluateBessel(pts0, x, h) ==
  LET n == Len(pts0)
      midIndex == (n - 1) \div 2
      x0 == average(At(pts0, midIndex).x, At(pts0, midIndex + 1).x)
      u == RDiv(RSub(x, x0), h)
      fwdDiff == getRawForwardDifferences(pts0)
      r0 == average(At(pts0, midIndex).y, At(pts0, midIndex + 1).y)
      r1 == plus(r0, 1 \in DOMAIN fwdDiff /\ midIndex < n - 1, RSub(u, Half),
                 read(fwdDiff, 1, midIndex))
      r2 == plus(r1, 2 \in DOMAIN fwdDiff /\ midIndex > 0 /\ midIndex < n - 1,
                 RDiv(RMul(u, RSub(u, R(1))), R(2)),
                 average(read(fwdDiff, 2, midIndex - 1), read(fwdDiff, 2, midIndex)))
  IN plus(r2, 3 \in DOMAIN fwdDiff /\ midIndex > 0 /\ midIndex < n - 2,
          RDiv(RMul(RMul(u, RSub(u, R(1))), RSub(u, Half)), R(6)),
          read(fwdDiff, 3, midIndex - 1))

\* t(t - 1)(t + 1)/6
cubic(t) == RDiv(RMul(RMul(t, RSub(t, R(1))), RAdd(t, R(1))), R(6))

\* t(t^2 - 1)(t^2 - 4)/120
quintic(t) ==
  RDiv(RMul(RMul(t, RSub(RMul(t, t), R(1))), RSub(RMul(t, t), R(4))), R(120))

evaluateEverett(pts0, x, h) ==
  LET n == Len(pts0)
      midIndex == (n - 1) \div 2
      u == RDiv(RSub(x, At(pts0, midIndex).x), h)
      w == RSub(R(1), u)
      fwdDiff == getRawForwardDifferences(pts0)
      r0 == RAdd(RMul(w, At(pts0, midIndex).y), RMul(u, At(pts0, midIndex + 1).y))
      second == 2 \in DOMAIN fwdDiff /\ midIndex > 0 /\ midIndex < n - 1
      r1 == plus(r0, second, cubic(u), readOrZero(fwdDiff, 2, midIndex - 1))
      r2 == plus(r1, second, cubic(w), readOrZero(fwdDiff, 2, midIndex))
      fourth == 4 \in DOMAIN fwdDiff /\ midIndex > 1 /\ midIndex < n - 2
      r3 == plus(r2, fourth, quintic(u), readOrZero(fwdDiff, 4, midIndex - 2))
  IN plus(r3, fourth, quintic(w), readOrZero(fwdDiff, 4, midIndex - 1))

evaluateGaussianForward(pts0, x, h) ==
  LET n == Len(pts0)
      midIndex == n \div 2
      u == RDiv(RSub(x, At(pts0, midIndex).x), h)
      fwdDiff == getRawForwardDifferences(pts0)
      r0 == At(pts0, midIndex).y
      r1 == plus(r0, 1 \in DOMAIN fwdDiff /\ midIndex < n - 1, u,
                 read(fwdDiff, 1, midIndex))
      r2 == plus(r1, 2 \in DOMAIN fwdDiff /\ midIndex > 0,
                 RDiv(RMul(u, RSub(u, R(1))), R(2)), read(fwdDiff, 2, midIndex - 1))
  IN plus(r2, 3 \in DOMAIN fwdDiff /\ midIndex > 0 /\ midIndex < n - 2,
          cubic(u), read(fwdDiff, 3, midIndex - 1))

evaluateGaussianBackward(pts0, x, h) ==
  LET n == Len(pts0)
      midIndex == n \div 2
      u == RDiv(RSub(x, At(pts0, midIndex).x), h)
      fwdDiff == getRawForwardDifferences(pts0)
      r0 == At(pts0, midIndex).y
      r1 == plus(r0, 1 \in DOMAIN fwdDiff /\ midIndex > 0, u,
                 read(fwdDiff, 1, midIndex - 1))
      r2 == plus(r1, 2 \in DOMAIN fwdDiff /\ midIndex > 0 /\ midIndex < n - 1,
                 RDiv(RMul(u, RAdd(u, R(1))), R(2)), read(fwdDiff, 2, midIndex - 1))
  IN plus(r2, 3 \in DOMAIN fwdDiff /\ midIndex > 1,
          RDiv(RMul(RMul(u, RAdd(u, R(1))), RSub(u, R(1))), R(6)),
          read(fwdDiff, 3, midIndex - 2))

\* METHOD_CONFIG[method].evaluate
evaluate(method, pts0, x, h) ==
  CASE method = "Forward Formula" -> evaluateForward(pts0, x, h)
    [] method = "Backward Formula" -> evaluateBackward(pts0, x, h)
    [] method = "Stirling's Formula" -> evaluateStirling(pts0, x, h)
    [] method = "Bessel's Formula" -> evaluateBessel(pts0, x, h)
    [] method = "Everett's Formula" -> evaluateEverett(pts0, x, h)
    [] method = "Gaussian Forward" -> evaluateGaussianForward(pts0, x, h)
    [] method = "Gaussian Backward" -> evaluateGaussianBackward(pts0, x, h)

\* one point of the curve drawn for a displayed result: the evaluator of the
\* result's method at the x the result was computed for, h = x[1] - x[0]
PlotCurve ==
  /\ res # NoResult
  /\ ~res.threw
  /\ curve = Undefined
  /\ curve' = evaluate(res.method, pts, qx, RSub(At(pts, 1).x, At(pts, 0).x))
  /\ UNCHANGED <<analysis, selectedDataset, isLoading, metadata, loadedPoints, fetching>>
  /\ UNCHANGED appVars
  /\ UNCHANGED callVars

NextPlot ==
  \/ NextEval
  \/ PlotCurve

SpecPlot == InitEval /\ [][NextPlot]_vars

Plotted == res # NoResult /\ curve # Undefined

\* C29: for each of the seven methods the curve evaluator returns at x the
\* value of the formula's result, so the curve passes through the plotted
\* interpolated point
C29_CurveMatchesFormula == Plotted => curve = res.value

\* ------------------------------------------------- RealWorldDataSelector
\* two of AVAILABLE_DATASETS, both served by fetchCryptoData
Datasets == {"btc-usd", "btc-pkr"}

\* prices.slice(0, 10).map((item, index) => ({x: index, y: ...})): the day
\* index is x, the prices differ by currency
Prices(datasetId, days) ==
  [i \in 1..days |->
     Pt(R(i - 1), R(IF datasetId = "btc-usd" THEN i * i ELSE i * i + 2))]

\* the metadata fetchCryptoData builds names the coin and the currency
MetadataOf(datasetId) == datasetId

FetchResult(success, pts0, meta) ==
  [success |-> success, points |-> pts0, metadata |-> meta]

\* what fetchDataset may resolve to: up to MaxDays daily prices, or a failure
FetchResults(datasetId) ==
  {FetchResult(TRUE, Prices(datasetId, days), MetadataOf(datasetId)) :
     days \in 1..MaxDays}
    \cup {FetchResult(FALSE, <<>>, Null)}

\* Number.prototype.toFixed followed by parseFloat, for a value >= 0
RECURSIVE power10(_)
power10(digits) == IF digits = 0 THEN 1 ELSE 10 * power10(digits - 1)

toFixed(a, digits) ==
  LET scaled == RAdd(RMul(a, R(power10(digits))), Half)
  IN Norm(scaled[1] \div scaled[2], power10(digits))

getSuggestedQueryPoint(datasetId, pts0) ==
  IF Len(pts0) < 2 THEN NullNum
  ELSE LET minX == At(pts0, 0).x
           xRange == RSub(At(pts0, Len(pts0) - 1).x, minX)
       IN IF datasetId \in {"btc-usd", "eth-usd"}
            THEN toFixed(RAdd(minX, RMul(xRange, <<13, 20>>)), 1)
          ELSE toFixed(RAdd(minX, RMul(xRange, Half)), 2)

\* the select's onChange
selectDataset(value) ==
  /\ selectedDataset' = value
  /\ metadata' = Null
  /\ loadedPoints' = <<>>
  /\ UNCHANGED <<isLoading, fetching, analysis, curve>>
  /\ handler' = Other
  /\ UNCHANGED <<points, queryX, selectedMethods, results, isComputing, error,
                 equallySpaced, stepSize, invoked>>
  /\ UNCHANGED callVars

\* a click on the fetch button, enabled unless !selectedDataset || isLoading:
\* handleFetchData up to its await
handleFetchData ==
  /\ selectedDataset # ""
  /\ ~isLoading
  /\ isLoading' = TRUE
  /\ error' = Null
  /\ isComputing' = FALSE
  /\ metadata' = Null
  /\ fetching' = selectedDataset
  /\ UNCHANGED <<selectedDataset, loadedPoints, analysis, curve>>
  /\ handler' = Other
  /\ UNCHANGED <<points, queryX, selectedMethods, results, equallySpaced, stepSize,
                 invoked>>
  /\ UNCHANGED callVars

\* an early return of the try block
fetchFailed(message) ==
  /\ error' = message
  /\ UNCHANGED <<points, queryX, results, equallySpaced, stepSize, loadedPoints,
                 metadata>>

\* handleFetchData from the await on, with the selectedDataset of the render
\* it was called in
fetchResolved(datasetId, result, preprocessed) ==
  /\ IF ~result.success THEN fetchFailed("Failed to fetch data")
     ELSE IF Len(result.points) < 2
       THEN fetchFailed("Not enough data points received from API")
     ELSE IF ~preprocessed.isValid THEN fetchFailed(preprocessed.error)
     ELSE /\ points' = preprocessed.sortedPoints
          /\ loadedPoints' = preprocessed.sortedPoints
          /\ equallySpaced' = preprocessed.equallySpaced
          /\ stepSize' = preprocessed.stepSize
          /\ queryX' = IF getSuggestedQueryPoint(datasetId, preprocessed.sortedPoints)
                           # NullNum
                         THEN getSuggestedQueryPoint(datasetId, preprocessed.sortedPoints)
                       ELSE queryX
          /\ results' = <<>>
          /\ metadata' = IF result.metadata # Null THEN result.metadata ELSE metadata
          /\ error' = Null
  /\ isLoading' = FALSE
  /\ isComputing' = FALSE
  /\ fetching' = NoFetch
  /\ UNCHANGED <<selectedDataset, analysis, curve>>
  /\ handler' = Other
  /\ UNCHANGED <<selectedMethods, invoked>>
  /\ UNCHANGED callVars

fetchCompletes ==
  /\ fetching # NoFetch
  /\ \E result \in FetchResults(fetching) :
       fetchResolved(fetching, result, preprocessPoints(result.points))

NextData ==
  \/ \E value \in Datasets \cup {""} : selectDataset(value)
  \/ handleFetchData
  \/ fetchCompletes

SpecData == Init /\ [][NextData]_vars

\* C30: under every interleaving of a fetch with selection changes, the loaded
\* points and the metadata, and the points and suggested query pushed to the
\* app state with them, are those of the dataset selected in the dropdown, and
\* isLoading is false once no fetch is pending
C30_LoadedDataIsSelected ==
  /\ loadedPoints # <<>> =>
       /\ selectedDataset \in Datasets
       /\ loadedPoints = Prices(selectedDataset, Len(loadedPoints))
       /\ points = loadedPoints
       /\ queryX = getSuggestedQueryPoint(selectedDataset, loadedPoints)
  /\ metadata # Null => metadata = MetadataOf(selectedDataset)
  /\ fetching = NoFetch => ~isLoading

============================================================================
